---- MODULE Spec2Model ----
(***************************************************************************)
(* Model of the incremental reconciliation engine of the table card        *)
(* (TableCard): key derivation, the merge of record batches into a keyed   *)
(* collection, the persisted copy of that collection, and the React        *)
(* render / effect cycle that drives them.                                 *)
(*                                                                         *)
(* JavaScript values are records [t |-> type, s |-> text]; a row (a plain  *)
(* object) is the sequence of its own properties in enumeration order; a   *)
(* keyed collection (an object used as a map, or a Map) is the sequence of *)
(* its entries in enumeration order.  Keys are strings.                    *)
(***************************************************************************)
EXTENDS Integers, Sequences, FiniteSets, TLC

(***************************************************************************)
(* Bounds                                                                  *)
(***************************************************************************)
MaxRecords == 2
MaxFnRows == 2
MaxWrites == 3

\* Pages the pagination control can report.
MaxPage == 3

\* Widgets of the TradingView report, and constructions and listeners of one
\* widget.
MaxWidgets == 3

MaxCreated == 2

(***************************************************************************)
(* JavaScript values                                                       *)
(***************************************************************************)
Num(s) == [t |-> "number", s |-> s]
Str(s) == [t |-> "string", s |-> s]
Null == [t |-> "null", s |-> "null"]
Undefined == [t |-> "undefined", s |-> "undefined"]

Prop(k, v) == [k |-> k, v |-> v]

\* A row that is no object but the value null: it has no property; it is
\* written as the list of one property without a name, which no object has.
NullRow == <<Prop("", Null)>>

\* settings?.indexColumn || "id"
indexColumn == "id"

\* String(value) for the primitive values of the model.
String(v) == v.s

\* The characters JSON.stringify escapes inside a string literal; the keys
\* and values of the model that contain a double quote are the JSON texts
\* listed here.
Escape(s) ==
  CASE s = "{\"a\":\"x\"}" -> "{\\\"a\\\":\\\"x\\\"}"
    [] s = "{\"id\":null,\"a\":\"x\"}" -> "{\\\"id\\\":null,\\\"a\\\":\\\"x\\\"}"
    [] s = "{\"a\":\"x\",\"b\":\"y\"}" -> "{\\\"a\\\":\\\"x\\\",\\\"b\\\":\\\"y\\\"}"
    [] s = "{\"b\":\"y\",\"a\":\"x\"}" -> "{\\\"b\\\":\\\"y\\\",\\\"a\\\":\\\"x\\\"}"
    [] OTHER -> s

Quote(s) == "\"" \o Escape(s) \o "\""

\* JSON.stringify of a primitive value.
JSONValue(v) == IF v.t = "string" THEN Quote(v.s) ELSE v.s

RECURSIVE JSONProps(_)
JSONProps(row) ==
  IF row = <<>> THEN ""
  ELSE Quote(Head(row).k) \o ":" \o JSONValue(Head(row).v)
       \o (IF Len(row) > 1 THEN "," ELSE "") \o JSONProps(Tail(row))

\* JSON.stringify(row): the own properties in enumeration order.
JSONStringify(row) ==
  IF row = NullRow THEN "null" ELSE "{" \o JSONProps(row) \o "}"

\* row?.[name]: the value of the property, undefined when absent.
RECURSIVE Get(_, _)
Get(row, name) ==
  IF row = <<>> THEN Undefined
  ELSE IF Head(row).k = name THEN Head(row).v
  ELSE Get(Tail(row), name)

RECURSIVE SetProp(_, _)
SetProp(row, p) ==
  IF row = <<>> THEN <<p>>
  ELSE IF Head(row).k = p.k THEN <<p>> \o Tail(row)
  ELSE <<Head(row)>> \o SetProp(Tail(row), p)

\* A merge that keeps only the incoming row: merged[key] = row.
SpreadReplace(existing, row) == row

\* { ...existing, ...row }: the properties of existing keep their place,
\* those of row overwrite same-named ones or are appended.
RECURSIVE Spread(_, _)
Spread(existing, row) ==
  IF row = <<>> \/ row = NullRow THEN existing
  ELSE Spread(SetProp(existing, Head(row)), Tail(row))

\* A key derivation without the fallback for a missing key field.
RowKeyNoFallback(row) == String(Get(row, indexColumn))

\* The key of a row: String(row[indexColumn]) when that value is neither
\* undefined nor null, else JSON.stringify(row).
RowKey(row) ==
  LET rawKey == Get(row, indexColumn)
  IN IF rawKey.t # "undefined" /\ rawKey.t # "null"
     THEN String(rawKey)
     ELSE JSONStringify(row)

(***************************************************************************)
(* Keyed collections                                                       *)
(***************************************************************************)
Entry(key, row) == [key |-> key, row |-> row]

\* The numeric value of a key that is a canonical array index ("1", "2",
\* ...), -1 for every other key.  Plain objects enumerate such keys first,
\* in ascending numeric order.
IndexOf(key) ==
  CASE key = "1" -> 1
    [] key = "2" -> 2
    [] key = "3" -> 3
    [] OTHER -> -1

RECURSIVE Lookup(_, _)
Lookup(coll, key) ==
  IF coll = <<>> THEN <<>>
  ELSE IF Head(coll).key = key THEN Head(coll).row
  ELSE Lookup(Tail(coll), key)

RECURSIVE HasKey(_, _)
HasKey(coll, key) ==
  IF coll = <<>> THEN FALSE
  ELSE Head(coll).key = key \/ HasKey(Tail(coll), key)

RECURSIVE Replace(_, _, _)
Replace(coll, key, row) ==
  IF coll = <<>> THEN <<>>
  ELSE IF Head(coll).key = key THEN <<Entry(key, row)>> \o Tail(coll)
  ELSE <<Head(coll)>> \o Replace(Tail(coll), key, row)

RECURSIVE InsertIndex(_, _, _)
InsertIndex(coll, key, row) ==
  IF coll = <<>> THEN <<Entry(key, row)>>
  ELSE IF IndexOf(Head(coll).key) = -1 \/ IndexOf(Head(coll).key) > IndexOf(key)
       THEN <<Entry(key, row)>> \o coll
       ELSE <<Head(coll)>> \o InsertIndex(Tail(coll), key, row)

\* map.set(key, row) on a Map: insertion order.
MapSet(coll, key, row) ==
  IF HasKey(coll, key) THEN Replace(coll, key, row)
  ELSE Append(coll, Entry(key, row))

\* An accumulator that pushes every row instead of keying it.
ObjSetAppend(coll, key, row) == Append(coll, Entry(key, row))

\* obj[key] = row on a plain object: index keys ascending, then the other
\* keys in insertion order.
ObjSet(coll, key, row) ==
  IF HasKey(coll, key) THEN Replace(coll, key, row)
  ELSE IF IndexOf(key) # -1 THEN InsertIndex(coll, key, row)
  ELSE Append(coll, Entry(key, row))

\* Array.from(map.values()) / Object.values(obj)
RECURSIVE Values(_)
Values(coll) ==
  IF coll = <<>> THEN <<>>
  ELSE <<Head(coll).row>> \o Values(Tail(coll))

Keys(coll) == {coll[i].key : i \in 1..Len(coll)}

RECURSIVE JSONEntries(_)
JSONEntries(coll) ==
  IF coll = <<>> THEN ""
  ELSE Quote(Head(coll).key) \o ":" \o JSONStringify(Head(coll).row)
       \o (IF Len(coll) > 1 THEN "," ELSE "") \o JSONEntries(Tail(coll))

\* JSON.stringify of a keyed collection held in a plain object.
JSONMap(coll) == "{" \o JSONEntries(coll) \o "}"

\* The rows of all records in arrival order: for (rec of records) for (row
\* of rec.rows).
RECURSIVE Flatten(_)
Flatten(records) ==
  IF records = <<>> THEN <<>>
  ELSE Head(records) \o Flatten(Tail(records))

(***************************************************************************)
(* The merge (useMemo mergedRows)                                          *)
(***************************************************************************)
RECURSIVE HttpFold(_, _)
HttpFold(map, rows) ==
  IF rows = <<>> THEN map
  ELSE LET row == Head(rows)
           key == RowKey(row)
       IN HttpFold(MapSet(map, key, Spread(Lookup(map, key), row)), Tail(rows))

RECURSIVE StreamFold(_, _)
StreamFold(merged, rows) ==
  IF rows = <<>> THEN merged
  ELSE LET row == Head(rows)
           key == RowKey(row)
       IN StreamFold(ObjSet(merged, key, Spread(Lookup(merged, key), row)), Tail(rows))

\* Snapshot (http): a fresh Map built from the records alone.
HttpMerge(records) == HttpFold(<<>>, Flatten(records))

\* Accumulate (streaming): the records merged into a copy of the persisted
\* object.
StreamMerge(persisted, records) == StreamFold(persisted, Flatten(records))

\* The object map the persist effect rebuilds from the merged rows.
RECURSIVE PersistFold(_, _)
PersistFold(map, rows) ==
  IF rows = <<>> THEN map
  ELSE PersistFold(ObjSet(map, RowKey(Head(rows)), Head(rows)), Tail(rows))

PersistMap(rows) == PersistFold(<<>>, rows)

(***************************************************************************)
(* Inputs                                                                  *)
(***************************************************************************)
RowA1 == <<Prop("id", Num("1")), Prop("a", Str("x"))>>
RowA2 == <<Prop("id", Num("1")), Prop("b", Str("y"))>>
RowA3 == <<Prop("id", Num("2")), Prop("a", Str("z"))>>
RowA4 == <<Prop("a", Str("x"))>>
RowA5 == <<Prop("id", Null), Prop("a", Str("x"))>>
RowA6 == <<Prop("id", Str("1")), Prop("a", Str("w"))>>
RowA7 == <<Prop("a", Str("x")), Prop("b", Str("y"))>>
RowA8 == <<Prop("b", Str("y")), Prop("a", Str("x"))>>

\* The rows the transport delivers to the mounted card.
Rows == {RowA1, RowA2, RowA4}

\* The rows the merge and the key derivation are applied to on their own.
FnRows == {RowA1, RowA2, RowA3, RowA5, RowA6, RowA7, RowA8}

SeqsUpTo(S, n) == UNION {[1..k -> S] : k \in 0..n}

\* records: a list of records, each carrying a list of rows.
\* A record that carries one row.
Recs == {<<r>> : r \in Rows}

\* Lists of records with a row each, and the list of one record without
\* rows (rec.rows is not an array): such a record adds nothing to a merge.
RecordLists == SeqsUpTo(Recs, MaxRecords) \cup {<< <<>> >>}

FnBatches == SeqsUpTo(FnRows, MaxFnRows)

\* `cereon.table.${reportId}.${card.id}`
Idents == {"cereon.table.r1.c1", "cereon.table.r1.c2"}

(***************************************************************************)
(* useStorageHook: a key/value store with get/set semantics                *)
(***************************************************************************)
\* storedValue of the hook for the entry of a card.
StorageGet(st, id) == st[id]

\* setValue(v) of the hook for the entry of a card.
StorageSet(st, id, v) == [st EXCEPT ![id] = v]

\* The entry of a key the store does not hold.
Absent == [t |-> "undefined", n |-> 0]

\* A stored number.
PageVal(n) == [t |-> "number", n |-> n]

\* storedValue of the hook: the initial value when the store has no entry.
HookValue(stored, initial) == IF stored.t = "undefined" THEN initial ELSE stored

(***************************************************************************)
(* Pagination and the final deduplication                                  *)
(***************************************************************************)
DefaultPageSize == 10

\* settings?.pageSize || 10; an absent pageSize is held as 0, falsy as well.
SettingsPageSize(st) == IF st.pageSize # 0 THEN st.pageSize ELSE DefaultPageSize

\* A page taken from every stored number as it is.
PageOfUnchecked(storedPage) ==
  IF storedPage.t = "number" THEN storedPage.n ELSE 1

\* typeof storedPage === "number" && storedPage > 0 ? storedPage : 1
PageOf(storedPage) ==
  IF storedPage.t = "number" /\ storedPage.n > 0 THEN storedPage.n ELSE 1

\* typeof storedPageSize === "number" && storedPageSize > 0
\*   ? storedPageSize : settings?.pageSize || 10
PageSizeOf(storedPageSize, st) ==
  IF storedPageSize.t = "number" /\ storedPageSize.n > 0
  THEN storedPageSize.n
  ELSE SettingsPageSize(st)

\* Math.ceil(a / b) for a >= 0, b > 0
Ceil(a, b) == (a + b - 1) \div b

\* Math.max(1, Math.ceil(mergedRows.length / pageSize))
TotalPages(len, ps) == IF Ceil(len, ps) > 1 THEN Ceil(len, ps) ELSE 1

Min(a, b) == IF a < b THEN a ELSE b

\* Array.prototype.slice(start, end) for start, end >= 0.
Slice(rows, start, end) ==
  LET from == Min(start, Len(rows))
      to == Min(end, Len(rows))
  IN IF from >= to THEN <<>> ELSE SubSeq(rows, from + 1, to)

\* start = (page - 1) * pageSize
Start(p, ps) == (p - 1) * ps

\* A slice that counts pages from zero.
VisibleRowsFromZero(rows, p, ps, st) ==
  IF ~st.enablePagination THEN rows ELSE Slice(rows, p * ps, p * ps + ps)

\* The number shown in the first cell of the row at index rowIndex of the
\* rows displayed, when settings.showRowNumbers is set:
\* start + rowIndex + 1
RowNumber(p, ps, rowIndex) == Start(p, ps) + rowIndex + 1

\* visibleRows
VisibleRows(rows, p, ps, st) ==
  IF ~st.enablePagination
  THEN rows
  ELSE Slice(rows, Start(p, ps), Start(p, ps) + ps)

RECURSIVE DedupeFold(_, _)
DedupeFold(rows, seen) ==
  IF rows = <<>> THEN <<>>
  ELSE IF RowKey(Head(rows)) \in seen
       THEN DedupeFold(Tail(rows), seen)
       ELSE <<Head(rows)>>
            \o DedupeFold(Tail(rows), seen \cup {RowKey(Head(rows))})

\* A pass that hands the view on as it is.
DedupeNone(rows) == rows

\* dedupedVisibleRows: the first row of every key, in view order.
Dedupe(rows) == DedupeFold(rows, {})

(***************************************************************************)
(* State                                                                   *)
(***************************************************************************)
VARIABLES
  storage,           \* the persisted rows entry of every card
  pageStore,         \* the persisted page entry of every card
  pageSizeStore,     \* the persisted pageSize entry of every card
  settings,          \* props: card.settings (pageSize, enablePagination)
  page,              \* the page of the last render
  pageSize,          \* the pageSize of the last render
  visibleRows,       \* the visibleRows of the last render
  clampDue,          \* the last render scheduled the clamp effect
  pc,                \* position of the component in the render/effect cycle
  ident,             \* props: storageKeyBase (reportId, card.id)
  isHttp,            \* props: card.query?.variant === "http"
  records,           \* props: records
  storedRowsStored,  \* the stored value the last render captured
  merged,            \* the keyed collection the last render built
  dirty,             \* a state update of the storage hook awaits a render
  lastInput,         \* what caused the last render
  writes,            \* setStoredRows calls of the persist effect since the
                     \* last render that was not caused by the hook's state
  dropped,           \* the last render lost a key of the render before it
  renderThrows,      \* props: a column renderer of card.settings throws
  shown,             \* what the last render returned
  fnPc, fnP, fnR, fnOnce, fnTwice, fnKeys, fnView, fnOut, fnMap, fnHttp,
  chPc,              \* position of the chart component in its effects
  chSeries,          \* props: card.settings.series
  chRecords,         \* props: records of the chart card
  chartRef,          \* chartRef.current holds a chart
  seriesMap,         \* seriesMapRef.current: the data set on every series
  seriesBefore,      \* seriesMapRef.current when the last pass began
  cmpPc, cmpIn, cmpOut,
  keyPc,             \* position of the two instances' storage accesses
  keyA, keyB,        \* props of two instances: reportId and card.id
  keyStore,          \* the persisted entries by storage key
  tvDefined,         \* window.TradingView.widget is a function
  tvScripts,         \* script elements for tv.js appended to the document
  tvLoaded,          \* the load event of the script element has fired
  tvMounted,         \* the widgets whose container is in the document
  tvWaiting,         \* load listeners registered on the script, by widget
  tvCreated,         \* TradingView.widget constructions, by widget
  tvBuilt            \* how the container of a widget got its widget

vars == <<storage, pageStore, pageSizeStore, settings, page, pageSize,
          visibleRows, clampDue, pc, ident, isHttp, records,
          storedRowsStored, merged, dirty, lastInput, writes, dropped,
          renderThrows, shown,
          fnPc, fnP, fnR, fnOnce, fnTwice, fnKeys, fnView, fnOut, fnMap,
          chPc, chSeries, chRecords, chartRef, seriesMap, seriesBefore,
          cmpPc, cmpIn, cmpOut, keyPc, keyA, keyB, keyStore,
          tvDefined, tvScripts, tvLoaded, tvMounted, tvWaiting, tvCreated,
          tvBuilt>>

cardVars == <<storage, pageStore, pageSizeStore, settings, page, pageSize,
              visibleRows, clampDue, pc, ident, isHttp, records,
              storedRowsStored, merged, dirty, lastInput, writes, dropped,
              renderThrows, shown>>

fnVars == <<fnPc, fnP, fnR, fnOnce, fnTwice, fnKeys, fnView, fnOut, fnMap,
           fnHttp>>

chartVars == <<chPc, chSeries, chRecords, chartRef, seriesMap, seriesBefore>>

cmpVars == <<cmpPc, cmpIn, cmpOut>>

keyVars == <<keyPc, keyA, keyB, keyStore>>

tvVars == <<tvDefined, tvScripts, tvLoaded, tvMounted, tvWaiting, tvCreated,
           tvBuilt>>

restVars == <<cmpVars, keyVars, tvVars>>

\* Object.values(merged) / Array.from(map.values())
mergedRows == Values(merged)

\* dedupedVisibleRows of the last render
dedupedVisibleRows == Dedupe(visibleRows)

Mounted == pc \in {"reset", "persist", "clamp", "idle"}

\* The card of the dashboard: no pageSize in its settings, pagination on.
NoSettings == [pageSize |-> 0, enablePagination |-> TRUE]

\* What the component holds before its first render.
NoView ==
  /\ page = 1
  /\ pageSize = DefaultPageSize
  /\ visibleRows = <<>>
  /\ clampDue = FALSE

\* An empty store and no component.
Unmounted0 ==
  /\ storage = [id \in Idents |-> <<>>]
  /\ pageStore = [id \in Idents |-> Absent]
  /\ NoView
  /\ pc = "unmounted"
  /\ ident = "cereon.table.r1.c1"
  /\ isHttp = FALSE
  /\ records = <<>>
  /\ storedRowsStored = <<>>
  /\ merged = <<>>
  /\ dirty = FALSE
  /\ lastInput = "none"
  /\ writes = 0
  /\ shown = "none"
  /\ dropped = FALSE

CardInit ==
  /\ Unmounted0
  /\ pageSizeStore = [id \in Idents |-> Absent]
  /\ settings = NoSettings
  /\ renderThrows = FALSE

FnOff ==
  /\ fnPc = "off"
  /\ fnP = <<>>
  /\ fnR = <<>>
  /\ fnOnce = <<>>
  /\ fnTwice = <<>>
  /\ fnKeys = <<>>
  /\ fnView = <<>>
  /\ fnOut = <<>>
  /\ fnMap = <<>>
  /\ fnHttp = <<>>

ChartOff ==
  /\ chPc = "off"
  /\ chSeries = <<>>
  /\ chRecords = <<>>
  /\ chartRef = FALSE
  /\ seriesMap = <<>>
  /\ seriesBefore = <<>>

CmpOff ==
  /\ cmpPc = "off"
  /\ cmpIn = <<>>
  /\ cmpOut = <<>>

KeyOff ==
  /\ keyPc = "off"
  /\ keyA = <<>>
  /\ keyB = <<>>
  /\ keyStore = <<>>

\* The TradingView widgets of the report, by the id of their container.
TvWidgets == 1..MaxWidgets

\* No widget is mounted, the document has no script for tv.js.
TvOff ==
  /\ tvDefined = FALSE
  /\ tvScripts = 0
  /\ tvLoaded = FALSE
  /\ tvMounted = {}
  /\ tvWaiting = [w \in TvWidgets |-> 0]
  /\ tvCreated = [w \in TvWidgets |-> 0]
  /\ tvBuilt = [w \in TvWidgets |-> "none"]

RestOff == CmpOff /\ KeyOff /\ TvOff

Init == CardInit /\ FnOff /\ ChartOff /\ RestOff

(***************************************************************************)
(* Render                                                                  *)
(***************************************************************************)
\* A merge that goes through the persisted rows whatever the variant.
MergeAlwaysStream(http, persisted, recs) == StreamMerge(persisted, recs)

\* The keyed collection of useMemo mergedRows.
Merge(http, persisted, recs) ==
  IF http THEN HttpMerge(recs) ELSE StreamMerge(persisted, recs)

\* The component returns before the remaining hooks when mergedRows is
\* empty; React throws when a render of a mounted component calls a
\* different number of hooks than the previous one.
HookMismatch(m) ==
  /\ Mounted
  /\ (Values(merged) = <<>>) # (Values(m) = <<>>)

\* The render went past the early return for an empty mergedRows and called
\* the hooks below it: columnDefs, the page and pageSize entries, the clamp
\* effect and the final deduplication.
HooksCalled(rows) == rows # <<>>

\* The render returned before the pagination hooks, or there is no
\* component: no page, no visible rows, no clamp effect.
ClearView ==
  /\ page' = 1
  /\ pageSize' = DefaultPageSize
  /\ visibleRows' = <<>>
  /\ clampDue' = FALSE

\* The props and the state of the component are gone once it is unmounted;
\* only the storage outlives it.
Discard ==
  /\ ident' = "cereon.table.r1.c1"
  /\ isHttp' = FALSE
  /\ records' = <<>>
  /\ storedRowsStored' = <<>>
  /\ merged' = <<>>
  /\ dirty' = FALSE
  /\ lastInput' = "none"
  /\ writes' = 0
  /\ dropped' = FALSE
  /\ shown' = "none"
  /\ ClearView

\* A render that stores the merged rows itself.
RenderStorageWrites(st, id, m) == StorageSet(st, id, m)

\* The render phase leaves the persisted rows entry as it is: "persistence
\* is handled in an effect".
RenderStorage(st, id, m) == st

\* The column renderers and the cell formatter are called once per cell of
\* the rows shown: a renderer of the key column that throws on an undefined
\* value throws when a row shown lacks the key field.
Throws(throwing, view) ==
  /\ throwing
  /\ \E i \in 1..Len(view) : Get(view[i], indexColumn).t = "undefined"

\* A render whose try block does not catch.
PropagatesAlways(throwing, view) == Throws(throwing, view)

\* The cells are built inside the try block of the return statement: what
\* they throw is caught there and never leaves the component.
Propagates(throwing, view) == FALSE

\* What the component returns: the empty notice before the remaining hooks
\* when mergedRows is empty, the fallback notice of the catch block when a
\* cell threw, else the table.
Returned(rows, throwing, view) ==
  IF rows = <<>> THEN "empty"
  ELSE IF Throws(throwing, view) THEN "fallback"
  ELSE "table"

\* One render of TableCard with the given props: reads the stored values,
\* computes mergedRows and, unless it is empty, the page, the visible rows
\* and the dependencies of the clamp effect; schedules the effects.
Render(kind, id, http, recs) ==
  LET stored == StorageGet(storage, id)
      m == Merge(http, stored, recs)
      rows == Values(m)
      p == PageOf(HookValue(StorageGet(pageStore, id), PageVal(1)))
      ps == PageSizeOf(HookValue(StorageGet(pageSizeStore, id),
                                 PageVal(SettingsPageSize(settings))),
                       settings)
      view == IF rows = <<>> THEN <<>>
              ELSE Dedupe(VisibleRows(rows, p, ps, settings))
  IN IF HookMismatch(m) \/ Propagates(renderThrows, view)
     THEN /\ pc' = "crashed"
          /\ Discard
          /\ UNCHANGED <<storage, pageStore, pageSizeStore, settings, renderThrows>>
     ELSE /\ pc' = "reset"
          /\ IF rows = <<>>
             THEN ClearView
             ELSE /\ page' = p
                  /\ pageSize' = ps
                  /\ visibleRows' = VisibleRows(rows, p, ps, settings)
                  /\ clampDue' = \/ ~Mounted
                                 \/ <<Len(rows), p, ps>>
                                      # <<Len(mergedRows), page, pageSize>>
          /\ storage' = RenderStorage(storage, id, m)
          /\ UNCHANGED <<pageStore, pageSizeStore, settings, renderThrows>>
          /\ ident' = id
          /\ isHttp' = http
          /\ records' = recs
          /\ storedRowsStored' = stored
          /\ merged' = m
          /\ dirty' = FALSE
          /\ lastInput' = kind
          /\ writes' = (IF kind = "state" THEN writes ELSE 0)
          /\ dropped' = (Mounted /\ Keys(merged) \ Keys(m) # {})
          /\ shown' = Returned(rows, renderThrows, view)

Mount ==
  /\ pc \in {"unmounted", "crashed"}
  /\ \E id \in Idents, http \in BOOLEAN, recs \in RecordLists :
       Render("mount", id, http, recs)
  /\ UNCHANGED fnVars
  /\ UNCHANGED chartVars
  /\ UNCHANGED restVars

\* The mount of the one card of a dashboard.
PageMount ==
  /\ pc \in {"unmounted", "crashed"}
  /\ \E http \in BOOLEAN, recs \in RecordLists :
       Render("mount", "cereon.table.r1.c1", http, recs)
  /\ UNCHANGED fnVars
  /\ UNCHANGED chartVars
  /\ UNCHANGED restVars

\* onPageChange={(p) => setPage(p)}: the Pagination of a committed render
\* with no update pending reports another page.
PageChange ==
  /\ pc = "idle"
  /\ ~dirty
  /\ mergedRows # <<>>
  /\ shown = "table"
  /\ settings.enablePagination
  /\ \E p \in 1..MaxPage :
       /\ p # page
       /\ pageStore' = StorageSet(pageStore, ident, PageVal(p))
  /\ dirty' = TRUE
  /\ UNCHANGED <<storage, pageSizeStore, settings, renderThrows, shown, page, pageSize,
                 visibleRows, clampDue, pc, ident, isHttp, records,
                 storedRowsStored, merged, lastInput, writes, dropped>>
  /\ UNCHANGED fnVars
  /\ UNCHANGED chartVars
  /\ UNCHANGED restVars

\* The transport delivers a new list of records.
Batch ==
  /\ pc = "idle"
  /\ \E recs \in RecordLists : Render("batch", ident, isHttp, recs)
  /\ UNCHANGED fnVars
  /\ UNCHANGED chartVars
  /\ UNCHANGED restVars

\* The query variant of the card changes.
SwitchMode ==
  /\ pc = "idle"
  /\ Render("mode", ident, ~isHttp, records)
  /\ UNCHANGED fnVars
  /\ UNCHANGED chartVars
  /\ UNCHANGED restVars

\* The report id or the card id changes.
SwitchIdent ==
  /\ pc = "idle"
  /\ \E id \in Idents \ {ident} : Render("ident", id, isHttp, records)
  /\ UNCHANGED fnVars
  /\ UNCHANGED chartVars
  /\ UNCHANGED restVars

\* The render React schedules after setStoredRows changed the hook's state.
Rerender ==
  /\ pc = "idle"
  /\ dirty
  /\ Render("state", ident, isHttp, records)
  /\ UNCHANGED fnVars
  /\ UNCHANGED chartVars
  /\ UNCHANGED restVars

Unmount ==
  /\ pc = "idle"
  /\ pc' = "unmounted"
  /\ Discard
  /\ UNCHANGED <<storage, pageStore, pageSizeStore, settings, renderThrows>>
  /\ UNCHANGED fnVars
  /\ UNCHANGED chartVars
  /\ UNCHANGED restVars

(***************************************************************************)
(* Effects                                                                 *)
(***************************************************************************)
\* A reset effect whose dependencies lack isHttp.
ResetDueNoMode == lastInput \in {"mount", "ident"}

\* useEffect(() => setStoredRows({}), [reportId, card.id, isHttp]): runs
\* after the mount render and after a render in which a dependency changed.
ResetDue == lastInput \in {"mount", "mode", "ident"}

ResetEffect ==
  /\ pc = "reset"
  /\ pc' = "persist"
  /\ IF ResetDue
     THEN /\ storage' = StorageSet(storage, ident, <<>>)
          /\ dirty' = TRUE
     ELSE UNCHANGED <<storage, dirty>>
  /\ UNCHANGED <<pageStore, pageSizeStore, settings, renderThrows, shown, page, pageSize,
                 visibleRows, clampDue, ident, isHttp, records,
                 storedRowsStored, merged, lastInput, writes, dropped>>
  /\ UNCHANGED fnVars
  /\ UNCHANGED chartVars
  /\ UNCHANGED restVars

\* A persist effect that stores every non-empty map.
PersistNonEmpty(prev, map) == JSONMap(map) # "{}"

\* A persist effect that stores without comparing.
AlwaysPersist(prev, map) == TRUE

\* prevJson !== nextJson
ShouldPersist(prev, map) == JSONMap(prev) # JSONMap(map)

\* A persist effect without the early return.
PersistSkippedNever == FALSE

\* if (isHttp) return;
PersistSkipped == isHttp

\* The persist effect: rebuilds the object map from mergedRows and stores
\* it when its serialization differs from that of the captured value.
PersistEffect ==
  /\ pc = "persist"
  /\ pc' = "clamp"
  /\ IF PersistSkipped
     THEN UNCHANGED <<storage, dirty, writes>>
     ELSE LET map == PersistMap(mergedRows)
          IN IF ShouldPersist(storedRowsStored, map)
             THEN /\ storage' = StorageSet(storage, ident, map)
                  /\ dirty' = TRUE
                  /\ writes' = (IF writes < MaxWrites THEN writes + 1 ELSE writes)
             ELSE UNCHANGED <<storage, dirty, writes>>
  /\ UNCHANGED <<pageStore, pageSizeStore, settings, renderThrows, shown, page, pageSize,
                 visibleRows, clampDue, ident, isHttp, records,
                 storedRowsStored, merged, lastInput, dropped>>
  /\ UNCHANGED fnVars
  /\ UNCHANGED chartVars
  /\ UNCHANGED restVars

\* A clamp that always goes back to the first page.
ClampToFirst(len, ps) == 1

\* The page the clamp effect stores: totalPages.
ClampTarget(len, ps) == TotalPages(len, ps)

\* A clamp effect that never finds the page out of range.
ClampNever(p, len, ps) == FALSE

\* A clamp effect that stores totalPages whatever the page.
ClampAlways(p, len, ps) == TRUE

\* page > totalPages
ClampNeeded(p, len, ps) == p > TotalPages(len, ps)

\* The clamp effect: registered by a render that got past the empty-state
\* return, run after the first such render and after a render in which
\* mergedRows.length, page or pageSize changed.
ClampEffect ==
  /\ pc = "clamp"
  /\ pc' = "idle"
  /\ clampDue' = FALSE
  /\ IF clampDue /\ ClampNeeded(page, Len(mergedRows), pageSize)
     THEN /\ pageStore' = StorageSet(pageStore, ident,
                             PageVal(ClampTarget(Len(mergedRows), pageSize)))
          /\ dirty' = TRUE
     ELSE UNCHANGED <<pageStore, dirty>>
  /\ UNCHANGED <<storage, pageSizeStore, settings, renderThrows, shown, page, pageSize,
                 visibleRows, ident, isHttp, records, storedRowsStored,
                 merged, lastInput, writes, dropped>>
  /\ UNCHANGED fnVars
  /\ UNCHANGED chartVars
  /\ UNCHANGED restVars

Next ==
  \/ Mount
  \/ Batch
  \/ SwitchMode
  \/ SwitchIdent
  \/ Rerender
  \/ Unmount
  \/ ResetEffect
  \/ PersistEffect
  \/ ClampEffect

Spec == Init /\ [][Next]_vars

\* The steps of ResetEffect, PersistEffect and Rerender, told by the
\* position of the component: each is enabled exactly when the action is,
\* and a step of Next that satisfies it is a step of the action.
ResetEffectStep == pc = "reset" /\ pc' = "persist"

PersistEffectStep == pc = "persist" /\ pc' = "clamp"

ClampEffectStep == pc = "clamp" /\ pc' = "idle"

RerenderStep ==
  /\ pc = "idle"
  /\ dirty
  /\ \/ pc' = "reset" /\ lastInput' = "state"
     \/ pc' = "crashed" /\ lastInput' = "none"

\* React runs the effects of a committed render and the render that a
\* state update scheduled; props change only when the parent delivers them.
LiveSpec ==
  /\ Init
  /\ [][Next]_vars
  /\ WF_pc(ResetEffectStep)
  /\ WF_pc(PersistEffectStep)
  /\ WF_pc(ClampEffectStep)
  /\ WF_<<pc, lastInput>>(RerenderStep)

(***************************************************************************)
(* The card with its pagination in use: one card, settings and a stored    *)
(* pageSize drawn in the initial state, the user changing pages.           *)
(***************************************************************************)
\* The settings of the card and its stored pageSize: the default pageSize
\* of 10, a configured pageSize of 2, a stored pageSize of 1, and
\* pagination disabled over a stored pageSize of 1.
PageSetups ==
  {<<[pageSize |-> 0, enablePagination |-> TRUE], Absent>>,
   <<[pageSize |-> 2, enablePagination |-> TRUE], Absent>>,
   <<[pageSize |-> 2, enablePagination |-> TRUE], PageVal(1)>>,
   <<[pageSize |-> 0, enablePagination |-> FALSE], PageVal(1)>>}

PageInit ==
  /\ Unmounted0
  /\ renderThrows = FALSE
  /\ \E setup \in PageSetups :
       /\ settings = setup[1]
       /\ pageSizeStore = [id \in Idents |->
                             IF id = "cereon.table.r1.c1" THEN setup[2]
                             ELSE Absent]
  /\ FnOff
  /\ ChartOff
  /\ RestOff

PageNext ==
  \/ PageMount
  \/ Batch
  \/ PageChange
  \/ Rerender
  \/ Unmount
  \/ ResetEffect
  \/ PersistEffect
  \/ ClampEffect

PageSpec == PageInit /\ [][PageNext]_vars

PageLiveSpec ==
  /\ PageInit
  /\ [][PageNext]_vars
  /\ WF_pc(ResetEffectStep)
  /\ WF_pc(PersistEffectStep)
  /\ WF_pc(ClampEffectStep)
  /\ WF_<<pc, lastInput>>(RerenderStep)

(***************************************************************************)
(* One session of an Accumulate card over an empty store, in which the     *)
(* persist effect can fail.                                                *)
(***************************************************************************)
SessionMount ==
  /\ pc = "unmounted"
  /\ \E recs \in RecordLists :
       Render("mount", "cereon.table.r1.c1", FALSE, recs)
  /\ UNCHANGED fnVars
  /\ UNCHANGED chartVars
  /\ UNCHANGED restVars

\* The persist effect when JSON.stringify or setStoredRows throws: the
\* catch ignores the error and the stored value stays as it was.
PersistFails ==
  /\ pc = "persist"
  /\ ~PersistSkipped
  /\ pc' = "clamp"
  /\ UNCHANGED <<storage, pageStore, pageSizeStore, settings, renderThrows, shown, page,
                 pageSize, visibleRows, clampDue, ident, isHttp, records,
                 storedRowsStored, merged, dirty, lastInput, writes,
                 dropped>>
  /\ UNCHANGED fnVars
  /\ UNCHANGED chartVars
  /\ UNCHANGED restVars

FailNext ==
  \/ SessionMount
  \/ Batch
  \/ Rerender
  \/ ResetEffect
  \/ PersistEffect
  \/ PersistFails
  \/ ClampEffect

FailSpec == Init /\ [][FailNext]_vars

(***************************************************************************)
(* The merge and the key derivation on their own: the inputs are drawn in  *)
(* the initial state, the actions apply the functions.                     *)
(***************************************************************************)
\* A persisted collection is one an earlier merge produced.
FnPersisted == {StreamMerge(<<>>, <<b>>) : b \in FnBatches}

RowKeys(rows) == [i \in 1..Len(rows) |-> RowKey(rows[i])]

FnInit ==
  /\ CardInit
  /\ fnPc = "in"
  /\ fnP \in FnPersisted
  /\ fnR \in {<<b>> : b \in FnBatches}
  /\ fnOnce = <<>>
  /\ fnTwice = <<>>
  /\ fnKeys = <<>>
  /\ fnView = <<>>
  /\ fnOut = <<>>
  /\ fnMap = <<>>
  /\ fnHttp = <<>>
  /\ ChartOff
  /\ RestOff

\* merge(previous, records) in Accumulate mode, and the key of every row.
FnMerge ==
  /\ fnPc = "in"
  /\ fnPc' = "once"
  /\ fnOnce' = StreamMerge(fnP, fnR)
  /\ fnKeys' = RowKeys(Flatten(fnR))
  /\ UNCHANGED <<fnP, fnR, fnTwice, fnView, fnOut, fnMap, fnHttp>>
  /\ UNCHANGED cardVars
  /\ UNCHANGED chartVars
  /\ UNCHANGED restVars

\* The map the persist effect rebuilds from the merged rows.
FnPersist ==
  /\ fnPc = "once"
  /\ fnPc' = "saved"
  /\ fnMap' = PersistMap(Values(fnOnce))
  /\ UNCHANGED <<fnP, fnR, fnOnce, fnTwice, fnKeys, fnView, fnOut, fnHttp>>
  /\ UNCHANGED cardVars
  /\ UNCHANGED chartVars
  /\ UNCHANGED restVars

\* The same records merged again into the result.
FnMergeAgain ==
  /\ fnPc = "once"
  /\ fnPc' = "twice"
  /\ fnTwice' = StreamMerge(fnOnce, fnR)
  /\ UNCHANGED <<fnP, fnR, fnOnce, fnKeys, fnView, fnOut, fnMap, fnHttp>>
  /\ UNCHANGED cardVars
  /\ UNCHANGED chartVars
  /\ UNCHANGED restVars

FnNext ==
  \/ FnMerge
  \/ FnMergeAgain

FnSpec == FnInit /\ [][FnNext]_vars

(***************************************************************************)
(* The merge and the map rebuilt by the persist effect, on rows with and   *)
(* without the key field and on a row that is not an object.               *)
(***************************************************************************)
PhaseRows == {RowA1, RowA6, RowA4, RowA5, NullRow}

PhaseBatches == SeqsUpTo(PhaseRows, MaxFnRows)

\* A persisted collection is one an earlier persist effect stored.
PhasePersisted == {PersistMap(Values(StreamMerge(<<>>, <<b>>))) : b \in PhaseBatches}

PhaseInit ==
  /\ CardInit
  /\ fnPc = "in"
  /\ fnP \in PhasePersisted
  /\ fnR \in {<<b>> : b \in PhaseBatches}
  /\ fnOnce = <<>>
  /\ fnTwice = <<>>
  /\ fnKeys = <<>>
  /\ fnView = <<>>
  /\ fnOut = <<>>
  /\ fnMap = <<>>
  /\ fnHttp = <<>>
  /\ ChartOff
  /\ RestOff

PhaseNext ==
  \/ FnMerge
  \/ FnPersist

PhaseSpec == PhaseInit /\ [][PhaseNext]_vars

(***************************************************************************)
(* The two branches of the merge on the same records, the streaming one    *)
(* starting from an empty persisted collection.                            *)
(***************************************************************************)
\* One record with up to MaxFnRows rows, or two records with at most a row
\* each.
ModeRecords ==
  {<<b>> : b \in FnBatches}
    \cup {<<b, c>> : b \in SeqsUpTo(FnRows, 1), c \in SeqsUpTo(FnRows, 1)}

ModeInit ==
  /\ CardInit
  /\ fnPc = "in"
  /\ fnP = <<>>
  /\ fnR \in ModeRecords
  /\ fnOnce = <<>>
  /\ fnTwice = <<>>
  /\ fnKeys = <<>>
  /\ fnView = <<>>
  /\ fnOut = <<>>
  /\ fnMap = <<>>
  /\ fnHttp = <<>>
  /\ ChartOff
  /\ RestOff

\* mergedRows of the streaming branch and of the http branch.
FnMergeBoth ==
  /\ fnPc = "in"
  /\ fnPc' = "both"
  /\ fnOnce' = StreamMerge(fnP, fnR)
  /\ fnHttp' = HttpMerge(fnR)
  /\ UNCHANGED <<fnP, fnR, fnTwice, fnKeys, fnView, fnOut, fnMap>>
  /\ UNCHANGED cardVars
  /\ UNCHANGED chartVars
  /\ UNCHANGED restVars

ModeNext == FnMergeBoth

ModeSpec == ModeInit /\ [][ModeNext]_vars

(***************************************************************************)
(* The final deduplication on its own: the view is drawn in the initial    *)
(* state, the action applies the pass.                                     *)
(***************************************************************************)
MaxViewRows == 3

ViewInit ==
  /\ CardInit
  /\ fnPc = "view"
  /\ fnView \in SeqsUpTo(FnRows, MaxViewRows)
  /\ fnP = <<>>
  /\ fnR = <<>>
  /\ fnOnce = <<>>
  /\ fnTwice = <<>>
  /\ fnKeys = <<>>
  /\ fnOut = <<>>
  /\ fnMap = <<>>
  /\ fnHttp = <<>>
  /\ ChartOff
  /\ RestOff

\* dedupedVisibleRows of the view, and the key of every row of the view.
FnDedupe ==
  /\ fnPc = "view"
  /\ fnPc' = "deduped"
  /\ fnOut' = Dedupe(fnView)
  /\ fnKeys' = RowKeys(fnView)
  /\ UNCHANGED <<fnP, fnR, fnOnce, fnTwice, fnView, fnMap, fnHttp>>
  /\ UNCHANGED cardVars
  /\ UNCHANGED chartVars
  /\ UNCHANGED restVars

ViewNext == FnDedupe

ViewSpec == ViewInit /\ [][ViewNext]_vars

(***************************************************************************)
(* AreaChartComponent: the series synchronisation pass                     *)
(***************************************************************************)
MaxPoints == 3

\* Strings of the chart model are sequences of UTF-16 code units, so that
\* the comparison sa < sb is the one JavaScript makes.
\* "2024-01-01" and "2024-01-02"
Date1 == <<50, 48, 50, 52, 45, 48, 49, 45, 48, 49>>

Date2 == <<50, 48, 50, 52, 45, 48, 49, 45, 48, 50>>

\* String(n) of a non-negative integer: its decimal digits.
RECURSIVE NumString(_)
NumString(n) ==
  IF n < 10 THEN <<48 + n>> ELSE NumString(n \div 10) \o <<48 + (n % 10)>>

\* The three kinds of Time of lightweight-charts: a number, a string, a
\* business day object {year, month, day}.
TimeNum(n) == [t |-> "number", n |-> n, s |-> <<>>, o |-> <<>>]

TimeStr(s) == [t |-> "string", n |-> 0, s |-> s, o |-> <<>>]

TimeObj(y, m, d) == [t |-> "object", n |-> 0, s |-> <<>>, o |-> <<y, m, d>>]

\* JSON.stringify({year, month, day}):  {"year":y,"month":m,"day":d}
JSONTime(o) ==
  <<123, 34, 121, 101, 97, 114, 34, 58>> \o NumString(o[1])
  \o <<44, 34, 109, 111, 110, 116, 104, 34, 58>> \o NumString(o[2])
  \o <<44, 34, 100, 97, 121, 34, 58>> \o NumString(o[3])
  \o <<125>>

\* typeof time === "object" ? JSON.stringify(time) : String(time)
TimeKey(time) ==
  IF time.t = "object" THEN JSONTime(time.o)
  ELSE IF time.t = "number" THEN NumString(time.n)
  ELSE time.s

\* sa < sb on strings: the order of the first differing code unit, a proper
\* prefix first.
RECURSIVE StrLess(_, _)
StrLess(sa, sb) ==
  IF sb = <<>> THEN FALSE
  ELSE IF sa = <<>> THEN TRUE
  ELSE IF Head(sa) # Head(sb) THEN Head(sa) < Head(sb)
  ELSE StrLess(Tail(sa), Tail(sb))

\* A comparator that compares the canonical strings whatever the times.
CompareStrings(a, b) ==
  LET sa == TimeKey(a.time)
      sb == TimeKey(b.time)
  IN IF StrLess(sa, sb) THEN -1 ELSE IF StrLess(sb, sa) THEN 1 ELSE 0

\* The comparator of the sort.
Compare(a, b) ==
  IF a.time.t = "number" /\ b.time.t = "number" THEN a.time.n - b.time.n
  ELSE LET sa == TimeKey(a.time)
           sb == TimeKey(b.time)
       IN IF StrLess(sa, sb) THEN -1 ELSE IF StrLess(sb, sa) THEN 1 ELSE 0

RECURSIVE Insert(_, _)
Insert(sorted, pt) ==
  IF sorted = <<>> THEN <<pt>>
  ELSE IF Compare(pt, Head(sorted)) < 0 THEN <<pt>> \o sorted
  ELSE <<Head(sorted)>> \o Insert(Tail(sorted), pt)

RECURSIVE SortFold(_, _)
SortFold(sorted, pts) ==
  IF pts = <<>> THEN sorted ELSE SortFold(Insert(sorted, Head(pts)), Tail(pts))

\* A pass that sets the points in their Map order.
Unsorted(pts) == pts

\* Array.prototype.sort with the comparator: the order is stable, and the
\* comparator is consistent on the times of the model.
SortPoints(pts) == SortFold(<<>>, pts)

\* A dedupe that keeps the point that is already there.
KeyedSetFirst(keyed, pt) ==
  IF HasKey(keyed, TimeKey(pt.time)) THEN keyed
  ELSE MapSet(keyed, TimeKey(pt.time), pt)

\* keyed.set(key, pt)
KeyedSet(keyed, pt) == MapSet(keyed, TimeKey(pt.time), pt)

RECURSIVE KeyedFold(_, _)
KeyedFold(keyed, pts) ==
  IF pts = <<>> THEN keyed
  ELSE KeyedFold(KeyedSet(keyed, Head(pts)), Tail(pts))

\* The points of a series over all records, in arrival order.
RECURSIVE Gather(_, _)
Gather(recs, id) ==
  IF recs = <<>> THEN <<>> ELSE Head(recs)[id] \o Gather(Tail(recs), id)

\* A pass that drops the points whose time is not a number.
SeriesDataNumeric(recs, id) ==
  LET pts == SelectSeq(Gather(recs, id), LAMBDA pt : pt.time.t = "number")
  IN IF Len(pts) > 0
     THEN SortPoints(Values(KeyedFold(<<>>, pts)))
     ELSE <<>>

\* The list handed to setData for a series.
SeriesData(recs, id) ==
  LET pts == Gather(recs, id)
  IN IF Len(pts) > 0
     THEN SortPoints(Values(KeyedFold(<<>>, pts)))
     ELSE <<>>

\* seriesById.get(id): the last descriptor of the configuration with the id.
RECURSIVE Incoming(_, _)
Incoming(cfg, id) ==
  IF cfg = <<>> THEN [id |-> id, visible |-> FALSE, found |-> FALSE]
  ELSE LET d == cfg[Len(cfg)]
       IN IF d.id = id THEN [id |-> id, visible |-> d.visible, found |-> TRUE]
          ELSE Incoming(SubSeq(cfg, 1, Len(cfg) - 1), id)

\* existingMap.delete(id)
RECURSIVE MapDelete(_, _)
MapDelete(map, id) ==
  IF map = <<>> THEN <<>>
  ELSE (IF Head(map).key = id THEN <<>> ELSE <<Head(map)>>)
       \o MapDelete(Tail(map), id)

\* The first loop: series that left the configuration or were hidden are
\* removed.
RECURSIVE RemoveStale(_, _)
RemoveStale(map, cfg) ==
  IF map = <<>> THEN <<>>
  ELSE LET inc == Incoming(cfg, Head(map).key)
       IN (IF ~inc.found \/ ~inc.visible THEN <<>> ELSE <<Head(map)>>)
          \o RemoveStale(Tail(map), cfg)

\* The second loop: every descriptor in turn.
RECURSIVE SyncFold(_, _, _)
SyncFold(map, cfg, recs) ==
  IF cfg = <<>> THEN map
  ELSE LET d == Head(cfg)
       IN IF ~d.visible
          THEN SyncFold(MapDelete(map, d.id), Tail(cfg), recs)
          ELSE SyncFold(MapSet(map, d.id, SeriesData(recs, d.id)),
                        Tail(cfg), recs)

\* A pass without its first loop.
SyncPassNoRemoval(map, cfg, recs) == SyncFold(map, cfg, recs)

\* A pass that leaves no series with an empty point list on the chart.
SyncPassDropEmpty(map, cfg, recs) ==
  SelectSeq(SyncFold(RemoveStale(map, cfg), cfg, recs),
            LAMBDA e : e.row # <<>>)

SyncPass(map, cfg, recs) == SyncFold(RemoveStale(map, cfg), cfg, recs)

\* Inputs of the chart.
Descriptor(id, visible) == [id |-> id, visible |-> visible]

ChartConfigs ==
  {<<Descriptor("s1", TRUE)>>,
   <<Descriptor("s1", TRUE), Descriptor("s2", TRUE)>>,
   <<Descriptor("s2", FALSE), Descriptor("s1", TRUE)>>}

ChartTimes ==
  {TimeNum(1), TimeNum(2), TimeNum(3), TimeStr(Date1), TimeStr(Date2),
   TimeStr(<<49>>), TimeObj(2024, 1, 1)}

\* The points of a list of times; the value of a point tells its place in
\* the arrival order.
PointsOf(times) == [i \in 1..Len(times) |-> [time |-> times[i], value |-> i]]

Reverse(pts) == [i \in 1..Len(pts) |-> pts[Len(pts) + 1 - i]]

\* A record: record.data, the points of every series id.
ChartRecord(p1, p2) == [s1 |-> p1, s2 |-> p2]

\* Two records that share out the points of series s1 in arrival order;
\* series s2 gets the same points the other way round.
SplitRecords(pts, k) ==
  LET first == SubSeq(pts, 1, k)
      rest == SubSeq(pts, k + 1, Len(pts))
  IN <<ChartRecord(first, Reverse(rest)), ChartRecord(rest, Reverse(first))>>

ChartRecordLists ==
  UNION {{SplitRecords(PointsOf(times), k) : k \in 0..Len(times)} :
           times \in SeqsUpTo(ChartTimes, MaxPoints)}

ChartInit ==
  /\ CardInit
  /\ FnOff
  /\ RestOff
  /\ chPc = "create"
  /\ chSeries \in ChartConfigs
  /\ chRecords \in ChartRecordLists
  /\ chartRef = FALSE
  /\ seriesMap = <<>>
  /\ seriesBefore = <<>>

\* The mount effect: createChart, chartRef.current = chart.
ChartCreate ==
  /\ chPc = "create"
  /\ chPc' = "sync"
  /\ chartRef' = TRUE
  /\ UNCHANGED <<chSeries, chRecords, seriesMap, seriesBefore>>
  /\ UNCHANGED cardVars
  /\ UNCHANGED fnVars
  /\ UNCHANGED restVars

\* The body of the series effect: const chart = chartRef.current;
\* if (!chart) return; else the pass.
SyncEffect(chart, map, series, recs) ==
  IF chart THEN SyncPass(map, series, recs) ELSE map

\* The series effect.
ChartSync ==
  /\ chPc = "sync"
  /\ chPc' = "idle"
  /\ seriesMap' = SyncEffect(chartRef, seriesMap, chSeries, chRecords)
  /\ seriesBefore' = seriesMap
  /\ UNCHANGED <<chSeries, chRecords, chartRef>>
  /\ UNCHANGED cardVars
  /\ UNCHANGED fnVars
  /\ UNCHANGED restVars

ChartNext ==
  \/ ChartCreate
  \/ ChartSync

ChartSpec == ChartInit /\ [][ChartNext]_vars

(***************************************************************************)
(* The comparator of the sort on its own                                   *)
(***************************************************************************)
\* Times for the comparator: those of the chart and two more whose numeric
\* and string orders disagree, the number 10 and the string "2".
CompareTimes == ChartTimes \cup {TimeNum(10), TimeStr(<<50>>)}

Sign(n) == IF n < 0 THEN -1 ELSE IF n > 0 THEN 1 ELSE 0

PointsOfZero(times) == [i \in 1..Len(times) |-> [time |-> times[i], value |-> 0]]

CompareInit ==
  /\ CardInit
  /\ FnOff
  /\ ChartOff
  /\ KeyOff
  /\ TvOff
  /\ cmpPc = "in"
  /\ cmpIn \in {PointsOfZero(times) : times \in [1..3 -> CompareTimes]}
  /\ cmpOut = <<>>

\* The comparator applied to every pair of the three points.
CompareAll ==
  /\ cmpPc = "in"
  /\ cmpPc' = "compared"
  /\ cmpOut' = [i \in 1..3 |->
                  [j \in 1..3 |-> Sign(Compare(cmpIn[i], cmpIn[j]))]]
  /\ UNCHANGED cmpIn
  /\ UNCHANGED cardVars
  /\ UNCHANGED fnVars
  /\ UNCHANGED chartVars
  /\ UNCHANGED keyVars
  /\ UNCHANGED tvVars

CompareNext == CompareAll

CompareSpec == CompareInit /\ [][CompareNext]_vars

(***************************************************************************)
(* The chart over its life: new configurations, new records, unmount       *)
(***************************************************************************)
LifeConfigs == ChartConfigs \cup {<<Descriptor("s2", TRUE)>>}

\* Records without any point, with points of both series, with a repeated
\* time, and with points of series s2 only.
LifeRecordLists ==
  {SplitRecords(PointsOf(<<>>), 0),
   SplitRecords(PointsOf(<<TimeNum(2), TimeNum(1)>>), 1),
   SplitRecords(PointsOf(<<TimeNum(1), TimeStr(Date1), TimeNum(1)>>), 2),
   <<ChartRecord(<<>>, PointsOf(<<TimeNum(3)>>))>>}

ChartLifeInit ==
  /\ CardInit
  /\ FnOff
  /\ RestOff
  /\ chPc = "create"
  /\ chSeries \in LifeConfigs
  /\ chRecords \in LifeRecordLists
  /\ chartRef = FALSE
  /\ seriesMap = <<>>
  /\ seriesBefore = <<>>

\* A render with another card.settings.series: the series effect is due.
ChartConfigure ==
  /\ chPc = "idle"
  /\ \E cfg \in LifeConfigs \ {chSeries} : chSeries' = cfg
  /\ chPc' = "sync"
  /\ UNCHANGED <<chRecords, chartRef, seriesMap, seriesBefore>>
  /\ UNCHANGED cardVars
  /\ UNCHANGED fnVars
  /\ UNCHANGED restVars

\* A render with new records.  The dependencies of the series effect are
\* series, seriesById and fitContentOnUpdate: the effect is due only when
\* the parent hands over a new series array (fresh) with the new records.
ChartBatch ==
  /\ chPc = "idle"
  /\ \E recs \in LifeRecordLists \ {chRecords}, fresh \in BOOLEAN :
       /\ chRecords' = recs
       /\ chPc' = IF fresh THEN "sync" ELSE "idle"
  /\ UNCHANGED <<chSeries, chartRef, seriesMap, seriesBefore>>
  /\ UNCHANGED cardVars
  /\ UNCHANGED fnVars
  /\ UNCHANGED restVars

\* A cleanup that leaves the series map as it is.
MapClearNone(map) == map

\* The cleanup removes every series from the chart, then
\* seriesMapRef.current.clear()
MapClear(map) == <<>>

\* The cleanup of the mount effect.
ChartUnmount ==
  /\ chPc = "idle"
  /\ chPc' = "unmounted"
  /\ seriesMap' = MapClear(seriesMap)
  /\ chartRef' = FALSE
  /\ UNCHANGED <<chSeries, chRecords, seriesBefore>>
  /\ UNCHANGED cardVars
  /\ UNCHANGED fnVars
  /\ UNCHANGED restVars

\* The card is mounted again: a new component with new refs.
ChartMount ==
  /\ chPc = "unmounted"
  /\ chPc' = "create"
  /\ chSeries' \in LifeConfigs
  /\ chRecords' \in LifeRecordLists
  /\ seriesBefore' = <<>>
  /\ UNCHANGED <<chartRef, seriesMap>>
  /\ UNCHANGED cardVars
  /\ UNCHANGED fnVars
  /\ UNCHANGED restVars

ChartLifeNext ==
  \/ ChartCreate
  \/ ChartSync
  \/ ChartConfigure
  \/ ChartBatch
  \/ ChartUnmount
  \/ ChartMount

ChartLifeSpec == ChartLifeInit /\ [][ChartLifeNext]_vars

ChartCreateStep == chPc = "create" /\ chPc' = "sync"

ChartSyncStep == chPc = "sync" /\ chPc' = "idle"

\* Effects scheduled by a commit are run.
ChartLiveSpec ==
  /\ ChartLifeSpec
  /\ WF_chPc(ChartCreateStep)
  /\ WF_chPc(ChartSyncStep)

(***************************************************************************)
(* The storage keys of two table instances                                 *)
(***************************************************************************)
\* `cereon.table.${reportId}.${card.id}`
StorageKeyBase(reportId, cardId) ==
  "cereon.table." \o reportId \o "." \o cardId

RowsKey(inst) == StorageKeyBase(inst.reportId, inst.cardId) \o ".rows"

PageKey(inst) == StorageKeyBase(inst.reportId, inst.cardId) \o ".page"

PageSizeKey(inst) == StorageKeyBase(inst.reportId, inst.cardId) \o ".pageSize"

KeysOf(inst) == {RowsKey(inst), PageKey(inst), PageSizeKey(inst)}

\* Report ids and card ids; ids with dots occur in the dashboards.
KeyReportIds == {"r1", "r1.c1"}

KeyCardIds == {"c1", "c2", "c1.c2"}

KeyInstances ==
  {[reportId |-> r, cardId |-> c] : r \in KeyReportIds, c \in KeyCardIds}

KeySpace == UNION {KeysOf(inst) : inst \in KeyInstances}

\* A stored rows value.
RowsVal(coll) == [t |-> "object", n |-> 0, rows |-> coll]

\* What instance B has persisted before instance A acts.
RowsOfB == RowsVal(PersistMap(<<RowA2>>))

PageOfB == PageVal(1)

\* Two instances that differ in report id or card id; B has persisted its
\* rows and its page.
KeyInit ==
  /\ CardInit
  /\ FnOff
  /\ ChartOff
  /\ CmpOff
  /\ TvOff
  /\ keyPc = "on"
  /\ keyA \in KeyInstances
  /\ keyB \in KeyInstances \ {keyA}
  /\ keyStore = [k \in KeySpace |->
                   IF k = RowsKey(keyB) THEN RowsOfB
                   ELSE IF k = PageKey(keyB) THEN PageOfB
                   ELSE Absent]

\* The reset effect of instance A: setStoredRows({}).
KeyReset ==
  /\ keyPc = "on"
  /\ keyStore' = StorageSet(keyStore, RowsKey(keyA), RowsVal(<<>>))
  /\ UNCHANGED <<keyPc, keyA, keyB>>
  /\ UNCHANGED cardVars
  /\ UNCHANGED fnVars
  /\ UNCHANGED chartVars
  /\ UNCHANGED cmpVars
  /\ UNCHANGED tvVars

\* The persist effect of instance A: setStoredRows(nextObj).
KeyPersist ==
  /\ keyPc = "on"
  /\ \E row \in Rows :
       keyStore' = StorageSet(keyStore, RowsKey(keyA),
                              RowsVal(PersistMap(<<row>>)))
  /\ UNCHANGED <<keyPc, keyA, keyB>>
  /\ UNCHANGED cardVars
  /\ UNCHANGED fnVars
  /\ UNCHANGED chartVars
  /\ UNCHANGED cmpVars
  /\ UNCHANGED tvVars

\* setPage(p) of instance A, by its clamp effect or its Pagination.
KeySetPage ==
  /\ keyPc = "on"
  /\ \E p \in 1..MaxPage :
       keyStore' = StorageSet(keyStore, PageKey(keyA), PageVal(p))
  /\ UNCHANGED <<keyPc, keyA, keyB>>
  /\ UNCHANGED cardVars
  /\ UNCHANGED fnVars
  /\ UNCHANGED chartVars
  /\ UNCHANGED cmpVars
  /\ UNCHANGED tvVars

KeyNext ==
  \/ KeyReset
  \/ KeyPersist
  \/ KeySetPage

KeySpec == KeyInit /\ [][KeyNext]_vars

(***************************************************************************)
(* One session of an Accumulate card over an empty store whose key column  *)
(* renderer throws on rows without the key field.                          *)
(***************************************************************************)
ThrowInit ==
  /\ Unmounted0
  /\ pageSizeStore = [id \in Idents |-> Absent]
  /\ settings = NoSettings
  /\ renderThrows = TRUE
  /\ FnOff
  /\ ChartOff
  /\ RestOff

ThrowNext ==
  \/ SessionMount
  \/ Batch
  \/ Rerender
  \/ ResetEffect
  \/ PersistEffect
  \/ ClampEffect

ThrowSpec == ThrowInit /\ [][ThrowNext]_vars

(***************************************************************************)
(* The TradingView widgets and the script tv.js                            *)
(***************************************************************************)
\* A lookup that never finds the script element.
ExistingScriptNever(scripts) == FALSE

\* document.querySelector('script[data-tradingview="tv.js"]'): the script
\* elements appended are never removed.
ExistingScript(scripts) == scripts > 0

\* A createWidget that never constructs.
CreateWidgetNever(created, mounted, w, n) == created

\* createWidget of widget w, called n times: it returns when the container
\* is not in the document, else constructs a TradingView.widget.
CreateWidget(created, mounted, w, n) ==
  IF w \in mounted THEN [created EXCEPT ![w] = @ + n] ELSE created

RECURSIVE CreateAll(_, _, _, _)
CreateAll(created, mounted, waiting, w) ==
  IF w > MaxWidgets THEN created
  ELSE CreateAll(CreateWidget(created, mounted, w, waiting[w]),
                 mounted, waiting, w + 1)

\* Bookkeeping for the properties: whether the container of a widget, while
\* it is in the document, holds a widget constructed by a run of the effect
\* ("effect") or by a handler of the load event ("load").
Built(how) ==
  tvBuilt' = [w \in TvWidgets |->
                IF w \notin tvMounted' THEN "none"
                ELSE IF tvCreated'[w] > tvCreated[w] THEN how
                ELSE tvBuilt[w]]

\* The effect of widget w: with TradingView defined it creates the widget;
\* else it waits for the load event of the script element, which it appends
\* to the document when there is none.
TvEffect(w) ==
  /\ tvCreated[w] + tvWaiting[w] < MaxCreated
  /\ IF tvDefined
     THEN /\ tvCreated' = CreateWidget(tvCreated, tvMounted', w, 1)
          /\ UNCHANGED <<tvScripts, tvWaiting>>
     ELSE /\ tvWaiting' = [tvWaiting EXCEPT ![w] = @ + 1]
          /\ tvScripts' = IF ExistingScript(tvScripts) THEN tvScripts
                          ELSE tvScripts + 1
          /\ UNCHANGED tvCreated
  /\ Built("effect")
  /\ UNCHANGED <<tvDefined, tvLoaded>>
  /\ UNCHANGED cardVars
  /\ UNCHANGED fnVars
  /\ UNCHANGED chartVars
  /\ UNCHANGED cmpVars
  /\ UNCHANGED keyVars

\* A widget is mounted and its effect runs.
TvMount(w) ==
  /\ w \notin tvMounted
  /\ tvMounted' = tvMounted \cup {w}
  /\ TvEffect(w)

\* A mounted widget is rendered with other widgetOptions: its effect runs
\* again.
TvRerun(w) ==
  /\ w \in tvMounted
  /\ tvMounted' = tvMounted
  /\ TvEffect(w)

\* A widget is unmounted: its container leaves the document; the effect has
\* no cleanup.
TvUnmount(w) ==
  /\ w \in tvMounted
  /\ tvMounted' = tvMounted \ {w}
  /\ UNCHANGED <<tvDefined, tvScripts, tvLoaded, tvWaiting, tvCreated>>
  /\ Built("none")
  /\ UNCHANGED cardVars
  /\ UNCHANGED fnVars
  /\ UNCHANGED chartVars
  /\ UNCHANGED cmpVars
  /\ UNCHANGED keyVars

\* The script has run and its load event fires: TradingView is defined and
\* every registered listener is called once and removed.
TvLoad ==
  /\ tvScripts > 0
  /\ ~tvLoaded
  /\ tvLoaded' = TRUE
  /\ tvDefined' = TRUE
  /\ tvCreated' = CreateAll(tvCreated, tvMounted, tvWaiting, 1)
  /\ tvWaiting' = [w \in TvWidgets |-> 0]
  /\ UNCHANGED <<tvScripts, tvMounted>>
  /\ Built("load")
  /\ UNCHANGED cardVars
  /\ UNCHANGED fnVars
  /\ UNCHANGED chartVars
  /\ UNCHANGED cmpVars
  /\ UNCHANGED keyVars

TvInit ==
  /\ CardInit
  /\ FnOff
  /\ ChartOff
  /\ CmpOff
  /\ KeyOff
  /\ TvOff

TvNext ==
  \/ \E w \in TvWidgets : TvMount(w)
  \/ \E w \in TvWidgets : TvRerun(w)
  \/ \E w \in TvWidgets : TvUnmount(w)
  \/ TvLoad

TvSpec == TvInit /\ [][TvNext]_vars

\* The load event of the script element: the claim about the construction
\* of the widgets assumes that the script, once appended, loads.
TvLoadStep == tvScripts > 0 /\ ~tvLoaded /\ tvLoaded' = TRUE

TvLiveSpec == TvSpec /\ WF_tvLoaded(TvLoadStep)

(***************************************************************************)
(* A session whose batches may carry a row that is not an object           *)
(***************************************************************************)
\* A batch whose record carries the row null: rows is typed any[], and the
\* merge reads such a row with row?.[indexColumn] and spreads it.
NullBatch ==
  /\ pc = "idle"
  /\ Render("batch", ident, isHttp, << <<NullRow>> >>)
  /\ UNCHANGED fnVars
  /\ UNCHANGED chartVars
  /\ UNCHANGED restVars

NullNext ==
  \/ SessionMount
  \/ Batch
  \/ NullBatch
  \/ Rerender
  \/ ResetEffect
  \/ PersistEffect
  \/ ClampEffect

NullSpec == Init /\ [][NullNext]_vars

(***************************************************************************)
(* A mount on persisted page and pageSize entries of any kind              *)
(***************************************************************************)
\* What the page and pageSize entries may hold when the card mounts: no
\* entry, a negative number, zero, a positive number, a string, null.
StoredValues ==
  {Absent, PageVal(-1), PageVal(0), PageVal(1), PageVal(2),
   [t |-> "string", n |-> 0], [t |-> "null", n |-> 0]}

\* card.settings: pageSize absent or positive, pagination on or off.
StoredSettings ==
  {[pageSize |-> s, enablePagination |-> e] : s \in {0, 2}, e \in BOOLEAN}

StoredInit ==
  /\ storage = [id \in Idents |-> <<>>]
  /\ \E sp \in StoredValues, sps \in StoredValues :
       /\ pageStore = [id \in Idents |->
                         IF id = "cereon.table.r1.c1" THEN sp ELSE Absent]
       /\ pageSizeStore = [id \in Idents |->
                             IF id = "cereon.table.r1.c1" THEN sps ELSE Absent]
  /\ settings \in StoredSettings
  /\ renderThrows = FALSE
  /\ NoView
  /\ pc = "unmounted"
  /\ ident = "cereon.table.r1.c1"
  /\ isHttp = FALSE
  /\ records = <<>>
  /\ storedRowsStored = <<>>
  /\ merged = <<>>
  /\ dirty = FALSE
  /\ lastInput = "none"
  /\ writes = 0
  /\ shown = "none"
  /\ dropped = FALSE
  /\ FnOff
  /\ ChartOff
  /\ RestOff

\* The card is mounted once.
StoredMount ==
  /\ pc = "unmounted"
  /\ \E http \in BOOLEAN, recs \in RecordLists :
       Render("mount", "cereon.table.r1.c1", http, recs)
  /\ UNCHANGED fnVars
  /\ UNCHANGED chartVars
  /\ UNCHANGED restVars

StoredNext ==
  \/ StoredMount
  \/ Rerender
  \/ ResetEffect
  \/ PersistEffect
  \/ ClampEffect

StoredSpec == StoredInit /\ [][StoredNext]_vars

(***************************************************************************)
(* Properties                                                              *)
(***************************************************************************)
Fields == {"id", "a", "b"}

Carries(row, f) == Get(row, f).t # "undefined"

Max(S) == CHOOSE n \in S : \A m \in S : m <= n

\* The value of field f supplied by the last row of the list that carries
\* it, undefined when no row does.
LastValue(rows, f) ==
  LET idx == {i \in 1..Len(rows) : Carries(rows[i], f)}
  IN IF idx = {} THEN Undefined ELSE Get(rows[Max(idx)], f)

RECURSIVE SelectKey(_, _, _)
SelectKey(rows, keys, key) ==
  IF rows = <<>> THEN <<>>
  ELSE (IF Head(keys) = key THEN <<Head(rows)>> ELSE <<>>)
       \o SelectKey(Tail(rows), Tail(keys), key)

\* The rows that arrived under a key, oldest first: the persisted entry,
\* then the rows of the records.
Arrivals(key) ==
  (IF HasKey(fnP, key) THEN <<Lookup(fnP, key)>> ELSE <<>>)
  \o SelectKey(Flatten(fnR), fnKeys, key)

KeySet(keys) == {keys[i] : i \in 1..Len(keys)}

\* C1: in Accumulate mode, merging the records R into the persisted
\* collection P and then merging R again into the result gives the same
\* collection (same keys, same rows) as merging R once.
IdempotentMerge == fnPc = "twice" => fnTwice = fnOnce

IdempotentMergeWitness ==
  /\ fnPc = "twice"
  /\ fnOnce # fnP
  /\ Keys(fnP) \cap KeySet(fnKeys) # {}
  /\ Len(fnKeys) = 2
  /\ fnKeys[1] = fnKeys[2]

\* C2: after merging in Accumulate mode, the collection holds exactly the
\* keys that arrived, and the entry of each key holds for every field the
\* value of the last arrival that carried the field; fields later arrivals
\* do not mention keep their earlier value.
LastWriteWins ==
  fnPc \in {"once", "twice"} =>
    /\ Keys(fnOnce) = Keys(fnP) \cup KeySet(fnKeys)
    /\ \A i \in 1..Len(fnOnce) : \A f \in Fields :
         Get(fnOnce[i].row, f) = LastValue(Arrivals(fnOnce[i].key), f)

\* batch1 = [{id:1,a:x}], batch2 = [{id:1,b:y},{id:2,a:z}] gives
\* {1:{id:1,a:x,b:y}, 2:{id:2,a:z}}.
LastWriteWinsWitness ==
  /\ fnPc = "once"
  /\ fnP = <<Entry("1", RowA1)>>
  /\ fnR = << <<RowA2, RowA3>> >>
  /\ fnOnce = <<Entry("1", <<Prop("id", Num("1")), Prop("a", Str("x")),
                             Prop("b", Str("y"))>>),
                Entry("2", RowA3)>>

\* The item as a mapping from field names to values.
AsMapping(row) == {<<row[i].k, row[i].v>> : i \in 1..Len(row)}

HasKeyField(row) == Get(row, indexColumn).t \notin {"undefined", "null"}

\* C5 as stated: two items with equal non-null values in the key field get
\* the same key; two items that lack the key field get the same key if and
\* only if they are the same mapping from field names to values.
KeyExtractionByMapping ==
  fnPc \in {"once", "twice"} =>
    LET rows == Flatten(fnR)
    IN \A i, j \in 1..Len(rows) :
         /\ (HasKeyField(rows[i]) /\ HasKeyField(rows[j])
              /\ Get(rows[i], indexColumn) = Get(rows[j], indexColumn))
            => fnKeys[i] = fnKeys[j]
         /\ (~HasKeyField(rows[i]) /\ ~HasKeyField(rows[j]))
            => (fnKeys[i] = fnKeys[j] <=> AsMapping(rows[i]) = AsMapping(rows[j]))

\* C5 (amended): two items with equal non-null values in the key field get
\* the same key; two items that lack the key field get the same key if and
\* only if they have the same fields with the same values in the same
\* enumeration order.
KeyExtraction ==
  fnPc \in {"once", "twice"} =>
    LET rows == Flatten(fnR)
    IN \A i, j \in 1..Len(rows) :
         /\ (HasKeyField(rows[i]) /\ HasKeyField(rows[j])
              /\ Get(rows[i], indexColumn) = Get(rows[j], indexColumn))
            => fnKeys[i] = fnKeys[j]
         /\ (~HasKeyField(rows[i]) /\ ~HasKeyField(rows[j]))
            => (fnKeys[i] = fnKeys[j] <=> rows[i] = rows[j])

\* Two items without the key field that differ only in the order of their
\* fields have been given different keys.
KeyExtractionWitness ==
  /\ fnPc = "once"
  /\ Flatten(fnR) = <<RowA7, RowA8>>
  /\ fnKeys[1] # fnKeys[2]

RecordKeys(recs) == KeySet(RowKeys(Flatten(recs)))

\* Every property of the row is carried by a row of the records that has
\* the given key.
FromRecords(key, row, recs) ==
  \A i \in 1..Len(row) :
    \E r \in {Flatten(recs)[n] : n \in 1..Len(Flatten(recs))} :
      /\ RowKey(r) = key
      /\ Get(r, row[i].k) = row[i].v

\* C3: in Snapshot (http) mode the merged collection is built only from
\* the records of the current merge: every key in it is the key of a
\* current row and every field value comes from a current row of that key,
\* so the items of an earlier batch whose keys are absent from the current
\* one are absent from the result.
SnapshotReplace ==
  (Mounted /\ isHttp) =>
    /\ Keys(merged) \subseteq RecordKeys(records)
    /\ \A i \in 1..Len(merged) :
         FromRecords(merged[i].key, merged[i].row, records)

\* A batch arrived in http mode and a key of the batch before it is gone.
SnapshotReplaceWitness ==
  /\ pc = "reset"
  /\ isHttp
  /\ lastInput = "batch"
  /\ dropped
  /\ merged # <<>>

PersistWrites == pc = "persist" /\ writes' # writes

\* C6: the persist step calls the storage setter only when the
\* serialization of the collection to save differs from that of the
\* currently stored value; and when the step before it (same widget, no
\* input in between) stored a collection with the same serialization, the
\* step does not write again, so the two steps make exactly one write.
WriteSuppression ==
  [][/\ PersistWrites =>
          JSONMap(PersistMap(mergedRows)) # JSONMap(StorageGet(storage, ident))
     /\ (/\ pc = "persist"
         /\ pc' = "clamp"
         /\ ~isHttp
         /\ lastInput = "state"
         /\ writes >= 1
         /\ JSONMap(PersistMap(mergedRows)) = JSONMap(StorageGet(storage, ident)))
        => writes' = writes]_vars

\* The persist step ran twice in a row on the same collection and wrote
\* once.
WriteSuppressionWitness ==
  /\ pc = "idle"
  /\ ~isHttp
  /\ lastInput = "state"
  /\ writes = 1
  /\ ~dirty
  /\ StorageGet(storage, ident) # <<>>
  /\ JSONMap(PersistMap(mergedRows)) = JSONMap(StorageGet(storage, ident))

\* The render in progress was caused from outside the widget: a mount, new
\* records, a change of variant or identity.
InputTaken == pc = "reset" /\ lastInput # "state"

\* No effect is pending and no state update awaits a render: without a new
\* input no storage write can happen.
Quiescent == pc \in {"idle", "unmounted", "crashed"} /\ ~dirty

\* C7: the cycle render -> persist effect -> storage notification ->
\* render never runs forever on its own: again and again the widget is at
\* rest (no storage write enabled) or has just taken a new input, so with
\* no further input it comes to rest after finitely many writes.
NoWriteLoop == []<>(Quiescent \/ InputTaken)

\* The cycle came to rest in Accumulate mode after the persist effect had
\* written the merged rows.
NoWriteLoopWitness ==
  /\ Quiescent
  /\ pc = "idle"
  /\ ~isHttp
  /\ lastInput = "state"
  /\ writes = 1
  /\ merged # <<>>

\* C8 as stated: after a mount in Accumulate mode and the effects of the
\* mount render, before any new batch arrives, the persisted rows entry
\* and the canonical collection still contain the rows that were persisted
\* when the widget mounted.
SurvivesReload ==
  (pc = "idle" /\ lastInput = "mount" /\ ~isHttp) =>
    /\ Keys(storedRowsStored) \subseteq Keys(merged)
    /\ Keys(storedRowsStored) \subseteq Keys(StorageGet(storage, ident))

\* C9 as stated: the first view computed after a mount or a change of
\* report id, card id or source mode contains only rows derived from the
\* current records.
CreatedEmpty ==
  (pc = "reset" /\ lastInput \in {"mount", "mode", "ident"}) =>
    /\ Keys(merged) \subseteq RecordKeys(records)
    /\ \A i \in 1..Len(merged) :
         FromRecords(merged[i].key, merged[i].row, records)

\* C10: after the query variant switched to http and the effects of that
\* render have run, the persisted rows entry of the widget is the empty
\* mapping.
ModeChangeClears ==
  (pc = "idle" /\ isHttp /\ lastInput = "mode") =>
    StorageGet(storage, ident) = <<>>

\* The switch to http found accumulated rows in the entry and the effects
\* emptied it.
ModeChangeClearsWitness ==
  /\ pc = "idle"
  /\ isHttp
  /\ lastInput = "mode"
  /\ storedRowsStored # <<>>
  /\ StorageGet(storage, ident) = <<>>

\* Values the persisted rows entry can hold.
StoredSamples == {<<>>} \cup {StreamMerge(<<>>, << <<r>> >>) : r \in Rows}

\* The merged collection of the last render is the one the render would
\* have built from any other persisted rows entry.
ViewIgnoresStorage ==
  \A p \in StoredSamples : Merge(isHttp, p, records) = merged

\* C11 as stated: while the widget is in Snapshot (http) mode, the rows
\* handed to presentation do not depend on the persisted rows entry, and no
\* step of the widget changes the persisted rows entry.
SnapshotNoStorage ==
  /\ []((Mounted /\ isHttp) => ViewIgnoresStorage)
  /\ [][(Mounted /\ isHttp) => storage' = storage]_vars

\* C11 (amended): while the widget is in Snapshot (http) mode, the rows
\* handed to presentation do not depend on the persisted rows entry, and
\* the only step of the widget that changes the persisted rows entry is
\* the reset effect, which empties the entry of the widget.
SnapshotOnlyClears ==
  /\ []((Mounted /\ isHttp) => ViewIgnoresStorage)
  /\ [][(Mounted /\ isHttp) =>
          \/ storage' = storage
          \/ /\ pc = "reset"
             /\ storage' = StorageSet(storage, ident, <<>>)]_vars

\* A mount in http mode found accumulated rows in the entry: the view was
\* built without them and the reset effect emptied the entry.
SnapshotOnlyClearsWitness ==
  /\ pc = "persist"
  /\ isHttp
  /\ lastInput = "mount"
  /\ merged # <<>>
  /\ Keys(storedRowsStored) \ Keys(merged) # {}
  /\ StorageGet(storage, ident) = <<>>

\* max(1, ceil(count / ps)): the least page, from 1, that reaches past the
\* last of count rows.
LastPage(count, ps) ==
  CHOOSE n \in 1..(count + 1) :
    /\ n * ps >= count
    /\ (n = 1 \/ (n - 1) * ps < count)

\* The page the persisted page entry of the widget stands for.
StoredPage == PageOf(HookValue(StorageGet(pageStore, ident), PageVal(1)))

Count == Len(mergedRows)

PageOutOfRange ==
  /\ Mounted
  /\ Count > 0
  /\ StoredPage > LastPage(Count, pageSize)

\* The clamp effect changes the persisted page entry.
ClampWrites == pc = "clamp" /\ pageStore' # pageStore

\* C12: whenever the stored page exceeds max(1, ceil(count/pageSize)) with
\* count > 0, the page is eventually back in range; the clamp effect
\* corrects it by writing exactly max(1, ceil(count/pageSize)) to the
\* persisted page entry; and once the widget is at rest no correction is
\* pending: the stored page is in range until a new input changes it.
PageClamp ==
  /\ PageOutOfRange ~> ~PageOutOfRange
  /\ [][ClampWrites =>
          pageStore' = StorageSet(pageStore, ident,
                                  PageVal(LastPage(Count, pageSize)))]_vars
  /\ []((Quiescent /\ Mounted /\ Count > 0) => ~PageOutOfRange)

\* count=2, pageSize=1, page=3: the clamp effect has stored page 2.
PageClampWitness ==
  /\ pc = "idle"
  /\ Count = 2
  /\ pageSize = 1
  /\ page = 3
  /\ StoredPage = 2
  /\ dirty

\* C13 as stated: with an empty merged collection (count = 0), once the
\* widget is at rest the persisted page entry stands for page 1.
EmptyClampsToFirst ==
  (Quiescent /\ Mounted /\ Count = 0) => StoredPage = 1

\* C14 as stated: with pagination enabled, the page a render slices the
\* collection with lies in [1, max(1, ceil(count/pageSize))].
PageCorrectedBeforeRead ==
  (Mounted /\ Count > 0 /\ settings.enablePagination) =>
    (page >= 1 /\ page <= LastPage(Count, pageSize))

\* The rows at positions [(p-1)*ps, p*ps) of the list, counted from 0.
RowsOfPage(rows, p, ps) ==
  LET idx == {i \in 1..Len(rows) : (p - 1) * ps < i /\ i <= p * ps}
  IN [k \in 1..Cardinality(idx) |-> rows[(p - 1) * ps + k]]

\* C15: with pagination disabled the view is every row of the canonical
\* collection in its enumeration order; with pagination enabled it is
\* exactly the rows at positions [(page-1)*pageSize, page*pageSize) of
\* that enumeration.
PaginatedView ==
  Mounted =>
    LET expected == IF settings.enablePagination
                    THEN RowsOfPage(mergedRows, page, pageSize)
                    ELSE mergedRows
    IN /\ visibleRows = expected
       /\ dedupedVisibleRows = expected

\* A collection of two rows with pageSize=1: page 2 is the second row.
PaginatedViewWitness ==
  /\ Mounted
  /\ settings.enablePagination
  /\ Count = 2
  /\ pageSize = 1
  /\ page = 2
  /\ visibleRows = <<mergedRows[2]>>

\* A step changes the persisted rows entry.
StorageWritten == storage' # storage

\* The step is a render: the component goes to the start of the effects or
\* crashes.
RenderStep == pc' \in {"reset", "crashed"}

\* The write of the persist effect: after the render computed the merged
\* rows, and only when their serialization differs from that of the stored
\* value the render captured.
ComparedWrite ==
  /\ pc = "persist"
  /\ merged = Merge(isHttp, storedRowsStored, records)
  /\ JSONMap(PersistMap(mergedRows)) # JSONMap(storedRowsStored)
  /\ storage' = StorageSet(storage, ident, PersistMap(mergedRows))

\* C16 as stated: no render step writes the persisted rows entry, and every
\* write of the entry is made in the effect phase after the view of the
\* same render was computed and its serialization compared with the stored
\* value.
TwoPhaseCompared ==
  [][/\ RenderStep => ~StorageWritten
     /\ StorageWritten => ComparedWrite]_vars

\* C16 (amended): no render step writes the persisted rows entry; every
\* write of the entry is made in the effect phase, after the view of the
\* same render was computed; a write of rows is made by the persist effect
\* after it compared their serialization with the stored value, and the
\* only other write is the reset effect emptying the entry, which compares
\* nothing.
TwoPhase ==
  [][/\ RenderStep => ~StorageWritten
     /\ StorageWritten =>
          \/ ComparedWrite
          \/ /\ pc = "reset"
             /\ merged = Merge(isHttp, storedRowsStored, records)
             /\ storage' = StorageSet(storage, ident, <<>>)]_vars

\* The persist effect has stored the merged rows of the render before it.
TwoPhaseWitness ==
  /\ pc = "clamp"
  /\ writes >= 1
  /\ mergedRows # <<>>
  /\ StorageGet(storage, ident) = PersistMap(mergedRows)
  /\ StorageGet(storage, ident) # storedRowsStored

\* C17 as stated: in a session of an Accumulate card whose storage writes
\* can fail, every key the canonical collection held at one render is
\* still held at the next.
FailureKeepsRows == (Mounted /\ ~isHttp) => ~dropped

\* The rows of the view at the positions in S, in view order.
RECURSIVE Pick(_, _, _)
Pick(view, S, i) ==
  IF i > Len(view) THEN <<>>
  ELSE (IF i \in S THEN <<view[i]>> ELSE <<>>) \o Pick(view, S, i + 1)

\* The positions of the view that hold the first row of their key.
FirstOfKey == {i \in 1..Len(fnView) : \A j \in 1..(i - 1) : fnKeys[j] # fnKeys[i]}

\* C18: the rows handed to presentation hold at most one row per key, they
\* are the first row of every key of the view in view order, and a view
\* whose keys are unique is handed on unchanged.
StabilityGuard ==
  fnPc = "deduped" =>
    /\ \A i, j \in 1..Len(fnOut) :
         RowKey(fnOut[i]) = RowKey(fnOut[j]) => i = j
    /\ fnOut = Pick(fnView, FirstOfKey, 1)
    /\ Cardinality(KeySet(fnKeys)) = Len(fnView) => fnOut = fnView

\* The view [{id:1,a:x}, {id:2,a:z}, {id:1,b:y}]: the third row repeats the
\* key of the first and is dropped, the other two keep their order.
StabilityGuardWitness ==
  /\ fnPc = "deduped"
  /\ fnView = <<RowA1, RowA3, RowA2>>
  /\ fnOut = <<RowA1, RowA3>>

\* The ids of the configured descriptors whose visible flag is not false.
VisibleIds == {chSeries[i].id : i \in {n \in 1..Len(chSeries) : chSeries[n].visible}}

\* The data set on the series of the chart.
DataOf(id) == Lookup(seriesMap, id)

TimesOf(pts) == [i \in 1..Len(pts) |-> pts[i].time]

AllOfType(pts, type) == \A i \in 1..Len(pts) : pts[i].time.t = type

\* C19: after the synchronisation pass, the data set on a series whose
\* points all have numeric times is in ascending numeric order, and the
\* data set on a series whose points all have string times is in ascending
\* lexicographic order.
SeriesSort ==
  chPc = "idle" =>
    \A id \in VisibleIds :
      LET pts == Gather(chRecords, id)
          data == DataOf(id)
      IN /\ AllOfType(pts, "number") =>
              \A i, j \in 1..Len(data) :
                i < j => data[i].time.n < data[j].time.n
         /\ AllOfType(pts, "string") =>
              \A i, j \in 1..Len(data) :
                i < j => StrLess(data[i].time.s, data[j].time.s)

\* The points of series s1 arrive with times [3, 1, 2] and are set on the
\* chart as [1, 2, 3].
SeriesSortWitness ==
  /\ chPc = "idle"
  /\ "s1" \in VisibleIds
  /\ TimesOf(Gather(chRecords, "s1")) = <<TimeNum(3), TimeNum(1), TimeNum(2)>>
  /\ TimesOf(DataOf("s1")) = <<TimeNum(1), TimeNum(2), TimeNum(3)>>

\* The last point of the list with the time key.
LastWithKey(pts, key) ==
  pts[Max({i \in 1..Len(pts) : TimeKey(pts[i].time) = key})]

\* C20: after the synchronisation pass, the point list set on every
\* configured visible series holds exactly one point for every time key
\* that arrived, and that point is the last one with the key in arrival
\* order across all records.
SeriesDedupe ==
  chPc = "idle" =>
    \A id \in VisibleIds :
      LET pts == Gather(chRecords, id)
          data == DataOf(id)
      IN /\ \A i, j \in 1..Len(data) :
              TimeKey(data[i].time) = TimeKey(data[j].time) => i = j
         /\ {TimeKey(data[i].time) : i \in 1..Len(data)} =
              {TimeKey(pts[i].time) : i \in 1..Len(pts)}
         /\ \A i \in 1..Len(data) :
              data[i] = LastWithKey(pts, TimeKey(data[i].time))

\* Time 1 arrives in the first record and again in the second: the point
\* of the second record is the one on the chart.
SeriesDedupeWitness ==
  /\ chPc = "idle"
  /\ "s1" \in VisibleIds
  /\ Len(chRecords[1].s1) = 2
  /\ Len(chRecords[2].s1) = 1
  /\ chRecords[1].s1[1].time = TimeNum(1)
  /\ chRecords[1].s1[2].time = TimeNum(2)
  /\ chRecords[2].s1[1].time = TimeNum(1)
  /\ DataOf("s1") = <<chRecords[2].s1[1], chRecords[1].s1[2]>>

\* C21 as stated: the comparator of the sort is a total order over the keys
\* of any three points, mixed numeric and string times included: comparing
\* b with a gives the opposite sign of comparing a with b, two points compare
\* equal only when they have the same key, and a <= b and b <= c give a <= c.
ComparatorTotalOrder ==
  cmpPc = "compared" =>
    /\ \A i, j \in 1..3 : cmpOut[i][j] = 0 - cmpOut[j][i]
    /\ \A i, j \in 1..3 :
         cmpOut[i][j] = 0 => TimeKey(cmpIn[i].time) = TimeKey(cmpIn[j].time)
    /\ \A i, j, k \in 1..3 :
         cmpOut[i][j] <= 0 /\ cmpOut[j][k] <= 0 => cmpOut[i][k] <= 0

Homogeneous(pts) ==
  \/ \A i \in 1..Len(pts) : pts[i].time.t = "number"
  \/ \A i \in 1..Len(pts) : pts[i].time.t # "number"

\* C21 (amended): the comparator is antisymmetric on every set of keys, two
\* points compare equal only when they have the same key, two numeric times
\* compare by their numeric difference, and the comparator is transitive,
\* hence a total order, on every set of keys that are all numeric or all
\* non-numeric; on sets that mix numeric and string times the order is best
\* effort only.
ComparatorOrder ==
  cmpPc = "compared" =>
    /\ \A i, j \in 1..3 : cmpOut[i][j] = 0 - cmpOut[j][i]
    /\ \A i, j \in 1..3 :
         cmpOut[i][j] = 0 => TimeKey(cmpIn[i].time) = TimeKey(cmpIn[j].time)
    /\ \A i, j \in 1..3 :
         cmpIn[i].time.t = "number" /\ cmpIn[j].time.t = "number"
           => cmpOut[i][j] = Sign(cmpIn[i].time.n - cmpIn[j].time.n)
    /\ Homogeneous(cmpIn) =>
         \A i, j, k \in 1..3 :
           cmpOut[i][j] <= 0 /\ cmpOut[j][k] <= 0 => cmpOut[i][k] <= 0

ComparatorOrderWitness ==
  /\ cmpPc = "compared"
  /\ cmpIn = PointsOfZero(<<TimeNum(10), TimeNum(2), TimeNum(3)>>)
  /\ cmpOut = <<<<0, 1, 1>>, <<-1, 0, -1>>, <<-1, 1, 0>>>>

IncomingPoints(id) ==
  UNION {{chRecords[r][id][i] : i \in 1..Len(chRecords[r][id])} :
           r \in 1..Len(chRecords)}

\* C22 as stated: for every visible series, every distinct time value of the
\* incoming points, numeric, string or object, is the time of exactly one
\* point of the data set on the chart.
EveryTimeKept ==
  chPc = "idle" =>
    \A id \in VisibleIds :
      \A pt \in IncomingPoints(id) :
        Cardinality({i \in 1..Len(DataOf(id)) :
                       DataOf(id)[i].time = pt.time}) = 1

\* C22 (amended): for every visible series, every distinct key (the
\* canonical string of a time) of the incoming points is the key of exactly
\* one point of the data set on the chart, and the data holds no other
\* point: only points whose key equals that of a later point are dropped.
EveryKeyKept ==
  chPc = "idle" =>
    \A id \in VisibleIds :
      /\ \A pt \in IncomingPoints(id) :
           Cardinality({i \in 1..Len(DataOf(id)) :
                          TimeKey(DataOf(id)[i].time) = TimeKey(pt.time)}) = 1
      /\ \A i \in 1..Len(DataOf(id)) : DataOf(id)[i] \in IncomingPoints(id)

\* Three keys arrive over two records under times of every kind: three
\* points are set.
EveryKeyKeptWitness ==
  /\ chPc = "idle"
  /\ "s1" \in VisibleIds
  /\ Len(chRecords) = 2
  /\ Len(chRecords[1]["s1"]) = 1
  /\ Len(chRecords[2]["s1"]) = 2
  /\ {pt.time : pt \in IncomingPoints("s1")}
       = {TimeNum(2), TimeStr(Date1), TimeObj(2024, 1, 1)}
  /\ Len(DataOf("s1")) = 3

\* C23: after every run of the series synchronisation pass on a live chart,
\* the series attached to the chart are those of the configured descriptors
\* whose visible flag is not false: a series removed from the configuration
\* or marked not visible is gone, and a newly configured visible series is
\* there with its data set in that same pass.
SeriesLifecycle ==
  [][chPc = "sync" /\ chartRef =>
       /\ Keys(seriesMap') = VisibleIds
       /\ \A id \in VisibleIds \ Keys(seriesMap) :
            /\ HasKey(seriesMap', id)
            /\ Lookup(seriesMap', id) = SeriesData(chRecords, id)]_vars

\* Series s1 left the configuration and series s2 entered it: the pass
\* removed the one and created the other with its point.
SeriesLifecycleWitness ==
  /\ chPc = "idle"
  /\ chartRef
  /\ Keys(seriesBefore) = {"s1"}
  /\ Keys(seriesMap) = {"s2"}
  /\ TimesOf(DataOf("s2")) = <<TimeNum(3)>>

DataCurrent ==
  /\ chPc = "idle"
  /\ chartRef
  /\ \A id \in VisibleIds :
       HasKey(seriesMap, id) /\ DataOf(id) = SeriesData(chRecords, id)

\* C25: when the records of a mounted chart card change while the series
\* configuration stays the same, the data of every visible series is
\* eventually set to the deduplicated, sorted points of the current records.
BatchReachesChart ==
  \A recs \in LifeRecordLists :
    (chPc = "idle" /\ chartRef /\ chRecords = recs)
      ~> (DataCurrent \/ chRecords # recs \/ chPc = "unmounted")

\* C26 as stated: two instances that differ in report id or card id have no
\* persisted entry in common, and whatever one instance does, the rows, page
\* and pageSize entries of the other are what they were.
InstanceIsolation ==
  keyPc = "on" =>
    /\ KeysOf(keyA) \cap KeysOf(keyB) = {}
    /\ keyStore[RowsKey(keyB)] = RowsOfB
    /\ keyStore[PageKey(keyB)] = PageOfB
    /\ keyStore[PageSizeKey(keyB)] = Absent

\* C27: when a column renderer throws while the table is rendered, the
\* widget returns the fallback notice and the error goes no further (the
\* only render that fails is the one of an empty widget that receives its
\* first rows); no key of the collection is lost by that render, and once
\* the effects have run the persisted rows are the rows of the collection.
RenderFailureContained ==
  /\ [](Mounted /\ Throws(renderThrows, dedupedVisibleRows)
          => shown = "fallback")
  /\ [](Mounted /\ shown = "fallback" => ~dropped)
  /\ [](pc = "idle" /\ ~dirty /\ shown = "fallback"
          => StorageGet(storage, ident) = PersistMap(mergedRows))
  /\ [][pc' = "crashed" => Mounted /\ mergedRows = <<>>]_vars

\* A second batch arrived while the fallback notice was shown: the
\* collection holds the rows of both batches and they are persisted.
RenderFailureContainedWitness ==
  /\ pc = "idle"
  /\ ~dirty
  /\ shown = "fallback"
  /\ lastInput = "state"
  /\ Len(mergedRows) = 2
  /\ records = << <<RowA2>> >>
  /\ StorageGet(storage, ident) = PersistMap(mergedRows)

\* C28: whatever the number of widgets mounted, their order and the moment
\* of the load event, at most one script element for tv.js is ever appended
\* to the document.
ScriptLoadedOnce == tvScripts <= 1

\* Two widgets were mounted before the script loaded: one script element,
\* two listeners.
ScriptLoadedOnceWitness ==
  /\ tvScripts = 1
  /\ ~tvLoaded
  /\ tvMounted = {1, 2}
  /\ tvWaiting[1] = 1
  /\ tvWaiting[2] = 1

\* The page change of the pagination control: setPage(p).
UserPageWrite ==
  /\ pc = "idle"
  /\ pc' = "idle"
  /\ shown = "table"
  /\ \E p \in 1..MaxPage :
       pageStore' = StorageSet(pageStore, ident, PageVal(p))

\* C29: no render writes the persisted page entry; the entry is written
\* only by the clamp effect after the render, and then only when the page
\* of that render exceeds the total number of pages, or by a page change of
\* the user.
PageWriteDeferred ==
  /\ [][RenderStep => pageStore' = pageStore]_vars
  /\ [][pageStore' # pageStore =>
          \/ ClampWrites /\ Mounted /\ page > LastPage(Count, pageSize)
          \/ UserPageWrite]_vars

\* The collection shrank to one row while page 2 of pageSize 1 was shown:
\* the render showed page 2, then the clamp effect stored page 1.
PageWriteDeferredWitness ==
  /\ pc = "idle"
  /\ dirty
  /\ Count = 1
  /\ pageSize = 1
  /\ page = 2
  /\ StoredPage = 1
  /\ lastInput = "batch"

\* C30 as stated: for every merged row, rows without the key field and
\* malformed rows included, the key the persist effect recomputes from the
\* merged row is the key under which the merge stored it, and the map the
\* effect rebuilds has the same keys and the same entry per key as the merged
\* collection.
KeysAgreeAcrossPhases ==
  fnPc = "saved" =>
    /\ \A i \in 1..Len(fnOnce) : RowKey(fnOnce[i].row) = fnOnce[i].key
    /\ Keys(fnMap) = Keys(fnOnce)
    /\ \A k \in Keys(fnOnce) : Lookup(fnMap, k) = Lookup(fnOnce, k)

\* C31 as stated: in Accumulate mode, when storage writes succeed and the
\* widget is at rest (no effect pending, no state update awaiting a render), the
\* persisted rows entry is the collection the current view was computed
\* from: the same keys, and under each key the same row.
PersistedMatchesMemory ==
  (pc = "idle" /\ ~dirty /\ ~isHttp) =>
    LET saved == StorageGet(storage, ident)
    IN /\ Keys(saved) = Keys(merged)
       /\ \A k \in Keys(merged) : Lookup(saved, k) = Lookup(merged, k)

\* C32 as stated: for every ordered list of records, Accumulate mode
\* starting from an empty persisted collection yields the same rows in the
\* same order as Snapshot mode applied to the same records.
ModesAgreeOnFresh == fnPc = "both" => Values(fnOnce) = Values(fnHttp)

\* The two modes yield the same rows under the same keys, whatever the
\* order.
ModesAgreeOnEntries ==
  fnPc = "both" =>
    /\ Keys(fnOnce) = Keys(fnHttp)
    /\ \A k \in Keys(fnOnce) : Lookup(fnOnce, k) = Lookup(fnHttp, k)

\* C33 as stated: every render of the table widget runs the same hooks and
\* effects whether the merged collection is empty or not: no render raises
\* (the component is never torn down by a render), and the render of a
\* mounted widget has called the hooks below the empty notice, the clamp
\* effect among them.
SameHooksEveryRender ==
  /\ pc # "crashed"
  /\ Mounted => HooksCalled(mergedRows)

\* No render raises.
NoRenderRaises == pc # "crashed"

\* C34: whatever the persisted page and pageSize entries hold when the
\* card mounts (nothing, a string, null, zero, a negative or a positive
\* number), with a positive or absent configured pageSize, the page a
\* render slices with is at least 1, its pageSize is at least 1 and the
\* start of the slice is not negative.
MalformedPaginationDegrades ==
  (Mounted /\ HooksCalled(mergedRows)) =>
    /\ page >= 1
    /\ pageSize >= 1
    /\ Start(page, pageSize) >= 0

\* A render sliced a non-empty collection while the page entry held a
\* number that is not positive and the pageSize entry held a string: it
\* used page 1 and the configured pageSize.
MalformedPaginationDegradesWitness ==
  /\ pc = "reset"
  /\ lastInput = "mount"
  /\ HooksCalled(mergedRows)
  /\ StorageGet(pageStore, ident) \in {PageVal(-1), PageVal(0)}
  /\ StorageGet(pageSizeStore, ident).t = "string"
  /\ settings.pageSize = 2
  /\ page = 1
  /\ pageSize = 2
  /\ Len(visibleRows) = 2

\* C35 as stated: the number displayed for a row is the 1-based position of
\* the row in the enumeration of the canonical collection, with pagination
\* enabled (the first row of page p has number (p-1)*pageSize+1) and with
\* pagination disabled (the first row has number 1 whatever page value is
\* stored).
RowNumbersMatchPositions ==
  shown = "table" =>
    \A i \in 1..Len(dedupedVisibleRows) :
      LET n == RowNumber(page, pageSize, i - 1)
      IN /\ n \in 1..Len(mergedRows)
         /\ mergedRows[n] = dedupedVisibleRows[i]

\* The property restricted to cards with pagination enabled.
RowNumbersMatchWhenPaginated ==
  settings.enablePagination => RowNumbersMatchPositions

\* C36 as stated: across every sequence of effect runs of the widget
\* components (mounts, changes of widgetOptions, load events of the
\* script), at most one TradingView.widget is constructed for a container
\* id.
NoDoubleCreation == \A w \in TvWidgets : tvCreated[w] <= 1

\* C37: assuming the script tv.js, once appended, fires its load event with
\* TradingView defined, every widget component whose container stays in the
\* document gets a TradingView.widget constructed for it, whether it
\* mounted before the script element existed, while the script was loading
\* or after it had loaded.
EventuallyConstructed ==
  \A w \in TvWidgets :
    (w \in tvMounted) ~> (tvBuilt[w] # "none" \/ w \notin tvMounted)

\* Three widgets are in the document with a widget each: two mounted before
\* the load event (the first appended the script, the second found it) and
\* were served by the load event, the third mounted after it and was served
\* by its own effect.
EventuallyConstructedWitness ==
  /\ tvLoaded
  /\ tvScripts = 1
  /\ tvMounted = {1, 2, 3}
  /\ tvBuilt[1] = "load"
  /\ tvBuilt[2] = "load"
  /\ tvBuilt[3] = "effect"
  /\ tvCreated = [w \in TvWidgets |-> 1]

\* C38: after the chart component has unmounted its series map is empty
\* and its chart reference is null; in every reachable state a non-empty
\* series map implies a live chart; and the series effect, run on the
\* series map, the configuration and the records of any reachable state
\* while the chart reference is null, adds and changes no series.
ChartTeardown ==
  /\ chPc = "unmounted" => (seriesMap = <<>> /\ ~chartRef)
  /\ seriesMap # <<>> => chartRef
  /\ SyncEffect(FALSE, seriesMap, chSeries, chRecords) = seriesMap

\* The component was unmounted after two passes had put data on its
\* configured series: nothing is left of them.
ChartTeardownWitness ==
  /\ chPc = "unmounted"
  /\ chSeries # <<>>
  /\ seriesBefore # <<>>
  /\ \E i \in 1..Len(seriesBefore) : seriesBefore[i].row # <<>>
  /\ seriesMap = <<>>
  /\ ~chartRef
====
